---- MODULE Spec2Model ----
(***************************************************************************)
(* The SQL agent of backend.py: five node functions over an AgentState     *)
(* dictionary, two routing functions, and the graph get_workflow wires.    *)
(* Texts are sequences of one-character strings, so that upper(), strip(), *)
(* replace() and the word-boundary search of check_security are computed   *)
(* character by character.                                                 *)
(***************************************************************************)
EXTENDS Integers, Sequences, FiniteSets, TLC

VARIABLES
    state,      \* the AgentState dictionary of the run (only the keys set so far)
    pc,         \* the node the graph runs next; "END", "aborted"; "call"/"returned" in the unit specifications
    steps,      \* names of the nodes completed so far, in order (the keys app.stream yields)
    ret,        \* [fn, value]: the last function called and what it returned
    llm_calls,  \* number of llm.invoke calls made so far
    llm_content,\* .content of the last llm.invoke response
    llm_prompt, \* the values the last prompt was built from
    store,      \* company.db: its tables, in sqlite_master order
    sqlite_outcome, \* what sqlite3 did in the step just run; kind "none" if the step ran no statement
    conn_log    \* the sqlite3.connect and conn.close calls made so far, in order

vars == <<state, pc, steps, ret, llm_calls, llm_content, llm_prompt, store, sqlite_outcome, conn_log>>

\* ------------------------------------------------------------------ bounds

\* longest statement, in pieces, handed to check_security in GateSpec
MaxPieces == 3
\* longest model output, in pieces, the writer's language-model call returns in Spec
MaxRespPieces == 2
\* largest retry_count handed to the routing functions in RouteSpec and to
\* write_sql in WriterSpec
MaxRetryIn == 5
\* longest model output, in pieces, handed to write_sql in WriterSpec
MaxFencePieces == 3
\* no run is followed for more than this many node executions
MaxSteps == 12

\* ------------------------------------------------------------------ texts

UpperLetters == <<"A","B","C","D","E","F","G","H","I","J","K","L","M",
                  "N","O","P","Q","R","S","T","U","V","W","X","Y","Z">>
LowerLetters == <<"a","b","c","d","e","f","g","h","i","j","k","l","m",
                  "n","o","p","q","r","s","t","u","v","w","x","y","z">>
DigitChars == {"0","1","2","3","4","5","6","7","8","9"}
LetterChars == {UpperLetters[i] : i \in 1..26} \cup {LowerLetters[i] : i \in 1..26}

\* the characters the regular expression class \w matches
WordChars == LetterChars \cup DigitChars \cup {"_"}

\* the characters str.strip() removes
Whitespace == {" ", "\n", "\t", "\r"}

\* Python's None; no text equals it, a text being a sequence of single characters
None == <<"None">>

\* truth value of a Python str-or-None
Truthy(v) == v # None /\ v # <<>>

\* str.upper() on one character
upper_char(c) ==
    IF \E i \in 1..26 : LowerLetters[i] = c
    THEN UpperLetters[CHOOSE i \in 1..26 : LowerLetters[i] = c]
    ELSE c

\* str.upper()
str_upper(s) == [i \in 1..Len(s) |-> upper_char(s[i])]

\* s.startswith(p)
StartsWith(s, p) == Len(p) <= Len(s) /\ SubSeq(s, 1, Len(p)) = p

\* s.replace(old, ""): non-overlapping occurrences, left to right
RECURSIVE str_remove(_, _)
str_remove(s, old) ==
    IF Len(s) < Len(old) \/ Len(old) = 0 THEN s
    ELSE IF StartsWith(s, old) THEN str_remove(SubSeq(s, Len(old) + 1, Len(s)), old)
    ELSE <<s[1]>> \o str_remove(Tail(s), old)

\* s.strip()
str_strip(s) ==
    LET keep == {i \in 1..Len(s) : s[i] \notin Whitespace}
    IN  IF keep = {} THEN <<>>
        ELSE SubSeq(s, CHOOSE i \in keep : \A j \in keep : i <= j,
                       CHOOSE i \in keep : \A j \in keep : j <= i)

\* needle in haystack
Contains(haystack, needle) ==
    \E i \in 1..(Len(haystack) - Len(needle) + 1) :
        SubSeq(haystack, i, i + Len(needle) - 1) = needle

\* \b at the gap before position p of text (1 <= p <= Len(text) + 1)
WordBoundary(text, p) ==
    LET before == p > 1 /\ text[p - 1] \in WordChars
        after  == p <= Len(text) /\ text[p] \in WordChars
    IN  before # after

\* re.search(r'\b' + word + r'\b', text) finds a match starting at position i
MatchesAt(word, text, i) ==
    /\ i + Len(word) - 1 <= Len(text)
    /\ SubSeq(text, i, i + Len(word) - 1) = word
    /\ WordBoundary(text, i)
    /\ WordBoundary(text, i + Len(word))

\* re.search(r'\b' + word + r'\b', text) is not None
re_search(word, text) == \E i \in 1..Len(text) : MatchesAt(word, text, i)

\* concatenation of a sequence of texts
RECURSIVE Join(_)
Join(parts) == IF parts = <<>> THEN <<>> ELSE Head(parts) \o Join(Tail(parts))

\* all sequences over S of length at most n
RECURSIVE SeqsUpTo(_, _)
SeqsUpTo(S, n) ==
    IF n = 0 THEN {<<>>}
    ELSE LET shorter == SeqsUpTo(S, n - 1)
         IN  shorter \cup {Append(s, x) : s \in shorter, x \in S}

Min(S) == CHOOSE x \in S : \A y \in S : x <= y

\* ------------------------------------------------------------------ AgentState

StateKeys == {"question", "schema", "sql_query", "sql_safe", "result", "error", "retry_count"}

\* a raised exception, in place of a returned value
Raise(e) == [raise |-> e]
IsRaise(r) == DOMAIN r = {"raise"}

\* a returned value, of a function that may raise instead
Returned(v) == [returned |-> v]

\* dict.get(key, default)
Get(d, key, default) == IF key \in DOMAIN d THEN d[key] ELSE default

\* the dictionary without one key
DropKey(d, key) == [k \in DOMAIN d \ {key} |-> d[k]]

\* a variant of the merge that keeps the old value of every key already set
MergeKeepOld(st, update) == st @@ update

\* the graph writes a node's returned keys over the state
Merge(st, update) == update @@ st

\* ------------------------------------------------------------------ fetch_schema

\* f"{col[1]} ({col[2]})"
ColumnText(col) == col.name \o <<" ", "(">> \o col.type \o <<")">>

\* ', '.join(col_names)
RECURSIVE JoinComma(_)
JoinComma(items) ==
    IF items = <<>> THEN <<>>
    ELSE IF Len(items) = 1 THEN items[1]
    ELSE items[1] \o <<",", " ">> \o JoinComma(Tail(items))

\* f"Table '{table_name}': {', '.join(col_names)}\n"
TableLine(table) ==
    <<"T", "a", "b", "l", "e", " ", "'">> \o table.name \o <<"'", ":", " ">>
    \o JoinComma([i \in 1..Len(table.columns) |-> ColumnText(table.columns[i])])
    \o <<"\n">>

\* whether f"PRAGMA table_info({table_name})" is a statement sqlite3 can parse: the
\* name stands in it unquoted, so it has to be one bare identifier. (A reserved
\* word fails too; none is among the table names used here.)
ParsesUnquoted(name) ==
    /\ name # <<>>
    /\ name[1] \notin DigitChars
    /\ \A i \in 1..Len(name) : name[i] \in WordChars \cup {"$"}

\* fetch_schema: one line per table of the store, in the order of sqlite_master;
\* a sqlite3.OperationalError of a PRAGMA statement is not caught
fetch_schema(db) ==
    IF \A i \in 1..Len(db) : ParsesUnquoted(db[i].name)
    THEN [schema |-> Join([i \in 1..Len(db) |-> TableLine(db[i])])]
    ELSE Raise("sqlite3.OperationalError")

\* the connection calls of fetch_schema: sqlite3.connect before the try block,
\* conn.close() in its finally clause; a connect that raises opens nothing
fetch_schema_connection(connected) ==
    IF connected THEN <<"connect", "close">> ELSE <<>>

\* ------------------------------------------------------------------ write_sql

\* the backquote character (U+0060), which a TLA+ string cannot hold
Backquote == "BACKQUOTE"

\* the fence markers write_sql removes: three backquotes followed by sql, and three backquotes
FenceSql == <<Backquote, Backquote, Backquote, "s", "q", "l">>
Fence == <<Backquote, Backquote, Backquote>>

\* a prompt that never shows an earlier error
write_sql_prompt_no_error(st) == [node |-> "writer", schema |-> st.schema,
                                  question |-> st.question, error |-> <<>>]

\* the values write_sql puts into its prompt
write_sql_prompt(st) == [node |-> "writer", schema |-> st.schema,
                         question |-> st.question, error |-> st.error]

\* a clean-up that removes only the tagged fence marker
clean_sql_tagged_only(content) == str_remove(str_strip(content), FenceSql)

\* response.content.strip().replace(FenceSql, "").replace(Fence, "")
clean_sql(content) == str_remove(str_remove(str_strip(content), FenceSql), Fence)

\* a write_sql that returns the incoming retry_count unchanged
write_sql_no_increment(st, content) ==
    IF ~({"schema", "question", "error"} \subseteq DOMAIN st) THEN Raise("KeyError")
    ELSE [sql_query |-> clean_sql(content), retry_count |-> Get(st, "retry_count", 0)]

\* a write_sql that returns an empty error with its draft
write_sql_clears_error(st, content) ==
    IF ~({"schema", "question", "error"} \subseteq DOMAIN st) THEN Raise("KeyError")
    ELSE [sql_query |-> clean_sql(content), retry_count |-> Get(st, "retry_count", 0) + 1,
          error |-> <<>>]

\* write_sql, given the content of the model's response
write_sql(st, content) ==
    IF ~({"schema", "question", "error"} \subseteq DOMAIN st) THEN Raise("KeyError")
    ELSE [sql_query |-> clean_sql(content), retry_count |-> Get(st, "retry_count", 0) + 1]

\* ------------------------------------------------------------------ check_security

forbidden == << <<"D", "R", "O", "P">>,
                <<"D", "E", "L", "E", "T", "E">>,
                <<"T", "R", "U", "N", "C", "A", "T", "E">>,
                <<"I", "N", "S", "E", "R", "T">>,
                <<"U", "P", "D", "A", "T", "E">>,
                <<"A", "L", "T", "E", "R">> >>

\* f"Forbidden keyword '{word}' detected."
ForbiddenError(word) ==
    <<"F", "o", "r", "b", "i", "d", "d", "e", "n", " ", "k", "e", "y", "w", "o", "r", "d", " ", "'">>
    \o word \o <<"'", " ", "d", "e", "t", "e", "c", "t", "e", "d", ".">>

\* the for loop of check_security from the i-th forbidden word on
RECURSIVE scan_forbidden(_, _)
scan_forbidden(query, i) ==
    IF i > Len(forbidden) THEN [sql_safe |-> TRUE, error |-> <<>>]
    ELSE IF re_search(forbidden[i], query)
         THEN [sql_safe |-> FALSE, error |-> ForbiddenError(forbidden[i])]
         ELSE scan_forbidden(query, i + 1)

\* a check_security that searches the query as written, without upper()
check_security_case_sensitive(st) ==
    IF "sql_query" \notin DOMAIN st THEN Raise("KeyError")
    ELSE scan_forbidden(st.sql_query, 1)

\* a check_security that reports the forbidden word that comes first in the text
check_security_first_in_text(st) ==
    IF "sql_query" \notin DOMAIN st THEN Raise("KeyError")
    ELSE LET query == str_upper(st.sql_query)
             hits == {<<p, i>> \in (1..Len(query)) \X (1..Len(forbidden)) :
                        MatchesAt(forbidden[i], query, p)}
         IN  IF hits = {} THEN [sql_safe |-> TRUE, error |-> <<>>]
             ELSE LET first == CHOOSE h \in hits : \A g \in hits : h[1] <= g[1]
                  IN  [sql_safe |-> FALSE, error |-> ForbiddenError(forbidden[first[2]])]

\* a check_security that returns only sql_safe when no forbidden word is found
check_security_keeps_error(st) ==
    IF "sql_query" \notin DOMAIN st THEN Raise("KeyError")
    ELSE LET found == scan_forbidden(str_upper(st.sql_query), 1)
         IN  IF found.sql_safe THEN [sql_safe |-> TRUE] ELSE found

\* a check_security that lets a statement pass that was approved before
check_security_trusts_verdict(st) ==
    IF "sql_query" \notin DOMAIN st THEN Raise("KeyError")
    ELSE IF Get(st, "sql_safe", FALSE) THEN [sql_safe |-> TRUE, error |-> <<>>]
    ELSE scan_forbidden(str_upper(st.sql_query), 1)

\* a check_security that starts the count of drafts again
check_security_resets_count(st) ==
    IF "sql_query" \notin DOMAIN st THEN Raise("KeyError")
    ELSE [retry_count |-> 0] @@ scan_forbidden(str_upper(st.sql_query), 1)

\* a check_security that hands on the statement in upper case, as it searched it
check_security_rewrites_query(st) ==
    IF "sql_query" \notin DOMAIN st THEN Raise("KeyError")
    ELSE [sql_query |-> str_upper(st.sql_query)] @@ scan_forbidden(str_upper(st.sql_query), 1)

\* check_security
check_security(st) ==
    IF "sql_query" \notin DOMAIN st THEN Raise("KeyError")
    ELSE scan_forbidden(str_upper(st.sql_query), 1)

\* ------------------------------------------------------------------ execute_sql

NoDataFound == <<"N", "o", " ", "d", "a", "t", "a", " ", "f", "o", "u", "n", "d", ".">>

\* an execute_sql that returns only the error key when the statement fails
execute_sql_error_only(st, outcome) ==
    IF "sql_query" \notin DOMAIN st THEN Raise("KeyError")
    ELSE CASE outcome.kind = "no_connection" -> Raise(outcome.exc)
           [] outcome.kind = "rows"  -> [result |-> outcome.text, error |-> <<>>]
           [] outcome.kind = "empty" -> [result |-> NoDataFound, error |-> <<>>]
           [] outcome.kind = "error" -> [error |-> outcome.text]
           [] outcome.kind = "raise" -> Raise(outcome.exc)

\* an execute_sql that returns the failure description as the result too
execute_sql_error_in_result(st, outcome) ==
    IF "sql_query" \notin DOMAIN st THEN Raise("KeyError")
    ELSE CASE outcome.kind = "no_connection" -> Raise(outcome.exc)
           [] outcome.kind = "rows"  -> [result |-> outcome.text, error |-> <<>>]
           [] outcome.kind = "empty" -> [result |-> NoDataFound, error |-> <<>>]
           [] outcome.kind = "error" -> [result |-> outcome.text, error |-> outcome.text]
           [] outcome.kind = "raise" -> Raise(outcome.exc)

\* execute_sql, given what sqlite3 did with the statement
execute_sql(st, outcome) ==
    IF "sql_query" \notin DOMAIN st THEN Raise("KeyError")
    ELSE CASE outcome.kind = "no_connection" -> Raise(outcome.exc)
           [] outcome.kind = "rows"  -> [result |-> outcome.text, error |-> <<>>]
           [] outcome.kind = "empty" -> [result |-> NoDataFound, error |-> <<>>]
           [] outcome.kind = "error" -> [result |-> <<>>, error |-> outcome.text]
           [] outcome.kind = "raise" -> Raise(outcome.exc)

\* an execute_sql that closes the connection at the end of the try block and in
\* the except clause, without a finally clause
execute_sql_connection_no_finally(outcome) ==
    CASE outcome.kind = "no_connection" -> <<>>
      [] outcome.kind = "raise"         -> <<"connect">>
      [] OTHER                          -> <<"connect", "close">>

\* the connection calls of execute_sql: sqlite3.connect before the try block,
\* conn.close() in the finally clause, on every way out of the try block
execute_sql_connection(outcome) ==
    IF outcome.kind = "no_connection" THEN <<>> ELSE <<"connect", "close">>

\* ------------------------------------------------------------------ summarize_result

NotAvailable == <<"N", "/", "A">>

\* a prompt that shows an absent result as the empty text
summarize_prompt_empty_default(st) ==
    [node |-> "summarizer",
     question  |-> Get(st, "question", <<>>),
     sql_query |-> Get(st, "sql_query", <<>>),
     result    |-> Get(st, "result", <<>>),
     error     |-> Get(st, "error", <<>>)]

\* the values summarize_result puts into its prompt
summarize_prompt(st) == [node |-> "summarizer",
                         question  |-> Get(st, "question", <<>>),
                         sql_query |-> Get(st, "sql_query", <<>>),
                         result    |-> Get(st, "result", NotAvailable),
                         error     |-> Get(st, "error", <<>>)]

\* a summarize_result that returns the result it was given
summarize_result_passthrough(st, content) == [result |-> Get(st, "result", NotAvailable)]

\* a summarize_result that returns the model's answer under another key
summarize_result_as_answer(st, content) == [answer |-> content]

\* a summarize_result that also returns the question, emptied
summarize_result_drops_question(st, content) == [result |-> content, question |-> <<>>]

\* summarize_result, given the content of the model's response
summarize_result(st, content) == [result |-> content]

\* ------------------------------------------------------------------ routing

\* the retry budget of route_after_execute
RetryLimit == 3

\* a route_after_security that always executes
route_after_security_always_execute(st) ==
    IF "sql_safe" \notin DOMAIN st THEN "KeyError" ELSE "execute"

\* route_after_security
route_after_security(st) ==
    IF "sql_safe" \notin DOMAIN st THEN "KeyError"
    ELSE IF st.sql_safe THEN "execute" ELSE "summarize"

\* a route_after_execute that compares with <= instead of <
route_after_execute_off_by_one(st) ==
    IF "error" \notin DOMAIN st THEN "KeyError"
    ELSE IF Truthy(st.error)
         THEN IF "retry_count" \notin DOMAIN st THEN "KeyError"
              ELSE IF st.retry_count <= RetryLimit THEN "retry" ELSE "summarize"
         ELSE "summarize"

\* a route_after_execute that retries while the budget lasts, whatever the error
route_after_execute_ignores_error(st) ==
    IF "retry_count" \notin DOMAIN st THEN "KeyError"
    ELSE IF st.retry_count < RetryLimit THEN "retry" ELSE "summarize"

\* route_after_execute: state['error'] and state['retry_count'] < 3
route_after_execute(st) ==
    IF "error" \notin DOMAIN st THEN "KeyError"
    ELSE IF Truthy(st.error)
         THEN IF "retry_count" \notin DOMAIN st THEN "KeyError"
              ELSE IF st.retry_count < RetryLimit THEN "retry" ELSE "summarize"
         ELSE "summarize"

\* ------------------------------------------------------------------ the store and sqlite3

\* a database file without tables
EmptyStore == <<>>

\* a table of that name is in the store
HasTable(db, name) == \E i \in 1..Len(db) : db[i].name = name

\* CREATE TABLE IF NOT EXISTS name (columns): a new table has no rows
create_table_if_not_exists(db, name, columns) ==
    IF HasTable(db, name) THEN db
    ELSE Append(db, [name |-> name, columns |-> columns, rows |-> <<>>])

\* an insert that gives every row a new primary key, after the largest in the table
insert_with_new_keys(db, name, seed) ==
    [i \in 1..Len(db) |->
        IF db[i].name # name THEN db[i]
        ELSE LET old  == db[i].rows
                 last == IF DOMAIN old = {} THEN 0
                         ELSE CHOOSE k \in DOMAIN old : \A j \in DOMAIN old : j <= k
                 base == CHOOSE k \in DOMAIN seed : \A j \in DOMAIN seed : k <= j
                 new  == [k \in {last + 1 + (j - base) : j \in DOMAIN seed} |->
                             seed[k - last - 1 + base]]
             IN  [db[i] EXCEPT !.rows = old @@ new]]

\* INSERT OR IGNORE INTO name VALUES ...: the rows of a table are kept by primary
\* key, and a row whose key is taken is skipped
insert_or_ignore(db, name, seed) ==
    [i \in 1..Len(db) |->
        IF db[i].name = name THEN [db[i] EXCEPT !.rows = @ @@ seed] ELSE db[i]]

Departments == <<"d", "e", "p", "a", "r", "t", "m", "e", "n", "t", "s">>
Employees == <<"e", "m", "p", "l", "o", "y", "e", "e", "s">>

\* the columns of the two CREATE TABLE statements of setup_db
DepartmentsColumns ==
    << [name |-> <<"d", "e", "p", "t", "_", "i", "d">>, type |-> <<"I", "N", "T", "E", "G", "E", "R">>],
       [name |-> <<"d", "e", "p", "t", "_", "n", "a", "m", "e">>, type |-> <<"T", "E", "X", "T">>],
       [name |-> <<"l", "o", "c", "a", "t", "i", "o", "n">>, type |-> <<"T", "E", "X", "T">>] >>
EmployeesColumns ==
    << [name |-> <<"e", "m", "p", "_", "i", "d">>, type |-> <<"I", "N", "T", "E", "G", "E", "R">>],
       [name |-> <<"n", "a", "m", "e">>, type |-> <<"T", "E", "X", "T">>],
       [name |-> <<"s", "a", "l", "a", "r", "y">>, type |-> <<"R", "E", "A", "L">>],
       [name |-> <<"d", "e", "p", "t", "_", "i", "d">>, type |-> <<"I", "N", "T", "E", "G", "E", "R">>] >>

\* the rows of the two executemany calls of setup_db, by primary key
SeedDepartments ==
    (101 :> <<"Engineering", "New York">>) @@ (102 :> <<"Sales", "San Francisco">>)
    @@ (103 :> <<"HR", "Remote">>)
SeedEmployees ==
    (1 :> <<"Alice", 120000, 101>>) @@ (2 :> <<"Bob", 85000, 102>>)
    @@ (3 :> <<"Charlie", 115000, 101>>) @@ (4 :> <<"Diana", 95000, 103>>)
    @@ (5 :> <<"Eve", 88000, 102>>)

\* setup_db on a database file
setup_db(db) ==
    LET d1 == create_table_if_not_exists(db, Departments, DepartmentsColumns)
        d2 == insert_or_ignore(d1, Departments, SeedDepartments)
        d3 == create_table_if_not_exists(d2, Employees, EmployeesColumns)
    IN  insert_or_ignore(d3, Employees, SeedEmployees)

\* company.db after SQLAgent.__init__ on a new file
SeededStore == setup_db(EmptyStore)

\* the statements setup_db hands to sqlite3, in order
setup_db_statements ==
    <<"CREATE TABLE IF NOT EXISTS", "INSERT OR IGNORE",
      "CREATE TABLE IF NOT EXISTS", "INSERT OR IGNORE", "COMMIT">>

\* the statements fetch_schema hands to sqlite3: the query of sqlite_master and
\* one PRAGMA table_info per table
fetch_schema_statements(db) == <<"SELECT">> \o [i \in 1..Len(db) |-> "PRAGMA table_info"]

\* the connection calls of setup_db: sqlite3.connect, and conn.close() in the
\* finally clause
setup_db_connection == <<"connect", "close">>

\* str(rows) of a non-empty fetchall()
RowTexts == { <<"[", "(", "1", ",", ")", "]">> }

\* str(e) of a sqlite3.Error raised by cursor.execute
SqlErrors == { <<"n", "o", " ", "s", "u", "c", "h", " ", "t", "a", "b", "l", "e", ":", " ", "t">>,
               <<"n", "e", "a", "r", " ", "d", ":", " ", "s", "y", "n", "t", "a", "x", " ", "e", "r", "r", "o", "r">> }

\* str(e) of the sqlite3.ProgrammingError for more than one statement
OneStatementError ==
    <<"Y", "o", "u", " ", "c", "a", "n", " ", "o", "n", "l", "y", " ", "e", "x", "e", "c", "u", "t", "e", " ",
      "o", "n", "e", " ", "s", "t", "a", "t", "e", "m", "e", "n", "t", " ", "a", "t", " ", "a", " ", "t", "i", "m", "e", ".">>

\* cursor.execute is given more than one statement: after leading blanks and
\* semicolons some text, then a semicolon, then anything but whitespace
HasSecondStatement(query) ==
    \E i, j, k \in 1..Len(query) :
        /\ i < j /\ j < k
        /\ query[i] \notin Whitespace \cup {";"}
        /\ query[j] = ";"
        /\ query[k] \notin Whitespace

\* a lone surrogate code point (U+DC80), which str.encode('utf-8') refuses
Surrogate == "SURROGATE"

\* no statement was handed to sqlite3 in the step
NoOutcome == [kind |-> "none"]

\* a statement that adds a table: CREATE TABLE t (x)
CreateTable == <<"C", "R", "E", "A", "T", "E", " ", "T", "A", "B", "L", "E", " ",
                 "t", " ", "(", "x", ")">>

\* the table that statement adds: one column without a declared type, no rows
NewTable == [name |-> <<"t">>, columns |-> << [name |-> <<"x">>, type |-> <<>>] >>,
             rows |-> <<>>]

\* str(e) of the sqlite3.OperationalError for a table that is already there
TableExistsError ==
    <<"t", "a", "b", "l", "e", " ", "t", " ", "a", "l", "r", "e", "a", "d", "y", " ",
      "e", "x", "i", "s", "t", "s">>

\* what sqlite3.connect and cursor.execute/fetchall can do with a statement.
\* no_connection: sqlite3.connect raises, outside the try block.
\* error: cursor.execute or fetchall raises a sqlite3.Error, which is caught.
\* raise: cursor.execute raises an exception that is no sqlite3.Error: a
\* UnicodeEncodeError for a statement that cannot be encoded as UTF-8, and, for more
\* than one statement, sqlite3.Warning on Python versions where that is not yet a
\* sqlite3.ProgrammingError.
\* CREATE TABLE returns no rows, and fails when the table is in the store.
SqliteOutcomes(query, db) ==
    {[kind |-> "no_connection", exc |-> "sqlite3.OperationalError"]}
    \cup IF \E i \in 1..Len(query) : query[i] = Surrogate
         THEN {[kind |-> "raise", exc |-> "UnicodeEncodeError"]}
         ELSE IF query = CreateTable
         THEN IF HasTable(db, NewTable.name)
              THEN {[kind |-> "error", text |-> TableExistsError]}
              ELSE {[kind |-> "empty"]}
         ELSE {[kind |-> "error", text |-> e] : e \in SqlErrors}
              \cup IF HasSecondStatement(query)
                   THEN {[kind |-> "raise", exc |-> "sqlite3.Warning"],
                         [kind |-> "error", text |-> OneStatementError]}
                   ELSE {[kind |-> "rows", text |-> t] : t \in RowTexts} \cup {[kind |-> "empty"]}

\* company.db after execute_sql has closed the connection. execute_sql never
\* commits, so what a statement did to rows is rolled back by conn.close(); a
\* CREATE TABLE opens no transaction and is in the file once it has run.
store_after_execute(db, query, outcome) ==
    IF query = CreateTable /\ outcome.kind = "empty" THEN Append(db, NewTable) ELSE db

\* the statement of execute_sql that sqlite3 ran: none when the connection or the
\* statement failed, the CREATE TABLE, or else a query that returned its rows
execute_sql_statements(query, outcome) ==
    IF outcome.kind \notin {"rows", "empty"} THEN <<>>
    ELSE IF query = CreateTable THEN <<"CREATE TABLE">>
    ELSE <<"SELECT">>

\* ------------------------------------------------------------------ the language model

SelectOne == <<"S", "E", "L", "E", "C", "T", " ", "1">>

\* the pieces the writer's model output is made of
RespPieces == { SelectOne, <<"D", "R", "O", "P">>, <<"d">>, <<" ">> }

\* a fenced answer: FenceSql, newline, SELECT 1, newline, Fence
FencedSelect == FenceSql \o <<"\n">> \o SelectOne \o <<"\n">> \o Fence

\* two statements in one answer: SELECT 1;d
TwoStatements == SelectOne \o <<";", "d">>

\* a destructive statement in lower case: drop t
DropLower == <<"d", "r", "o", "p", " ", "t">>

\* a statement that holds a lone surrogate: SELECT 'x' with the surrogate for x
SurrogateSelect == <<"S", "E", "L", "E", "C", "T", " ", "'", Surrogate, "'">>

\* response.content of the writer's llm.invoke call
Responses ==
    {Join(ps) : ps \in SeqsUpTo(RespPieces, MaxRespPieces)}
    \cup {FencedSelect, TwoStatements, DropLower, SurrogateSelect, CreateTable}

\* response.content of the summarizer's llm.invoke call
Summaries == { <<"T", "o", "t", "a", "l", " ", "i", "s", " ", "1", ".">>,
               <<"C", "a", "n", "n", "o", "t", " ", "a", "n", "s", "w", "e", "r", ".">> }

\* llm.invoke returns a response or raises
LLMReplies(contents) == {[ok |-> TRUE, content |-> c] : c \in contents} \cup {[ok |-> FALSE]}

\* ------------------------------------------------------------------ get_workflow

\* workflow.set_entry_point
EntryPoint == "fetch_schema"

\* the mapping of the guardian's conditional edges
security_edges == [execute |-> "executor", summarize |-> "summarizer"]

\* the mapping of the executor's conditional edges
execute_edges == [retry |-> "writer", summarize |-> "summarizer"]

\* a graph whose guardian retries a blocked draft while the budget lasts
NextNodeRetryBlocked(node, st) ==
    CASE node = "fetch_schema" -> "writer"
      [] node = "writer"       -> "guardian"
      [] node = "guardian"     -> IF st.sql_safe THEN "executor"
                                  ELSE execute_edges[route_after_execute(st)]
      [] node = "executor"     -> execute_edges[route_after_execute(st)]
      [] node = "summarizer"   -> "END"

\* a graph whose summarizer loops back to the writer
NextNodeSummarizerLoops(node, st) ==
    CASE node = "fetch_schema" -> "writer"
      [] node = "writer"       -> "guardian"
      [] node = "guardian"     -> security_edges[route_after_security(st)]
      [] node = "executor"     -> execute_edges[route_after_execute(st)]
      [] node = "summarizer"   -> IF st.retry_count < RetryLimit THEN "writer" ELSE "END"

\* a graph whose writer hands its draft to the executor, past the guardian
NextNodeSkipsGuardian(node, st) ==
    CASE node = "fetch_schema" -> "writer"
      [] node = "writer"       -> "executor"
      [] node = "guardian"     -> security_edges[route_after_security(st)]
      [] node = "executor"     -> execute_edges[route_after_execute(st)]
      [] node = "summarizer"   -> "END"

\* a graph whose executor's retry edge leads back to fetch_schema
NextNodeRetryRefetches(node, st) ==
    CASE node = "fetch_schema" -> "writer"
      [] node = "writer"       -> "guardian"
      [] node = "guardian"     -> security_edges[route_after_security(st)]
      [] node = "executor"     ->
            IF route_after_execute(st) = "retry" THEN "fetch_schema" ELSE "summarizer"
      [] node = "summarizer"   -> "END"

\* the node that runs after `node`, given the state with node's update merged in
NextNode(node, st) ==
    CASE node = "fetch_schema" -> "writer"
      [] node = "writer"       -> "guardian"
      [] node = "guardian"     ->
            LET r == route_after_security(st)
            IN  IF r = "KeyError" THEN "aborted" ELSE security_edges[r]
      [] node = "executor"     ->
            LET r == route_after_execute(st)
            IN  IF r = "KeyError" THEN "aborted" ELSE execute_edges[r]
      [] node = "summarizer"   -> "END"

\* a graph that runs a node again when it raises
RunNodeAgainOnRaise(node, update) ==
    /\ ret' = [fn |-> node, value |-> update]
    /\ IF IsRaise(update)
       THEN /\ pc' = node
            /\ UNCHANGED <<state, steps>>
       ELSE /\ state' = Merge(state, update)
            /\ steps' = Append(steps, node)
            /\ pc' = NextNode(node, Merge(state, update))

\* a graph that takes the outgoing edge on the values the state had before the
\* node ran, for every key that was set
RunNodeRoutesBeforeMerge(node, update) ==
    /\ ret' = [fn |-> node, value |-> update]
    /\ IF IsRaise(update)
       THEN /\ pc' = "aborted"
            /\ UNCHANGED <<state, steps>>
       ELSE /\ state' = Merge(state, update)
            /\ steps' = Append(steps, node)
            /\ pc' = NextNode(node, state @@ update)

\* one node execution: an exception ends the run; otherwise the update is merged,
\* the step is reported and the outgoing edge is taken on the merged state
RunNode(node, update) ==
    /\ ret' = [fn |-> node, value |-> update]
    /\ IF IsRaise(update)
       THEN /\ pc' = "aborted"
            /\ UNCHANGED <<state, steps>>
       ELSE /\ state' = Merge(state, update)
            /\ steps' = Append(steps, node)
            /\ pc' = NextNode(node, Merge(state, update))

\* ------------------------------------------------------------------ a run of the workflow

Question == <<"H", "o", "w", " ", "m", "a", "n", "y", "?">>

\* inputs of app.py: {"question": user_query, "retry_count": 0, "error": ""}
Inputs == [question |-> Question, retry_count |-> 0, error |-> <<>>]

NoCall == [fn |-> "none", value |-> <<>>]
NoPrompt == [node |-> "none"]

Init ==
    /\ state = Inputs
    /\ pc = EntryPoint
    /\ steps = <<>>
    /\ ret = NoCall
    /\ llm_calls = 0
    /\ llm_content = <<>>
    /\ llm_prompt = NoPrompt
    /\ store = SeededStore
    /\ sqlite_outcome = NoOutcome
    /\ conn_log = <<>>

FetchSchema ==
    /\ pc = "fetch_schema"
    /\ Len(steps) < MaxSteps
    /\ \E connected \in BOOLEAN :
          /\ RunNode("fetch_schema", IF connected THEN fetch_schema(store)
                                     ELSE Raise("sqlite3.OperationalError"))
          /\ conn_log' = conn_log \o fetch_schema_connection(connected)
    /\ sqlite_outcome' = NoOutcome
    /\ UNCHANGED <<llm_calls, llm_content, llm_prompt, store>>

Writer ==
    /\ pc = "writer"
    /\ Len(steps) < MaxSteps
    /\ IF ~({"schema", "question", "error"} \subseteq DOMAIN state)
       THEN /\ RunNode("writer", Raise("KeyError"))
            /\ UNCHANGED <<llm_calls, llm_content, llm_prompt>>
       ELSE \E reply \in LLMReplies(Responses) :
            /\ llm_calls' = llm_calls + 1
            /\ llm_prompt' = write_sql_prompt(state)
            /\ IF reply.ok
               THEN /\ llm_content' = reply.content
                    /\ RunNode("writer", write_sql(state, reply.content))
               ELSE /\ llm_content' = llm_content
                    /\ RunNode("writer", Raise("LLMError"))
    /\ sqlite_outcome' = NoOutcome
    /\ UNCHANGED <<store, conn_log>>

Guardian ==
    /\ pc = "guardian"
    /\ Len(steps) < MaxSteps
    /\ RunNode("guardian", check_security(state))
    /\ sqlite_outcome' = NoOutcome
    /\ UNCHANGED <<llm_calls, llm_content, llm_prompt, store, conn_log>>

Executor ==
    /\ pc = "executor"
    /\ Len(steps) < MaxSteps
    /\ \E outcome \in SqliteOutcomes(Get(state, "sql_query", <<>>), store) :
          /\ sqlite_outcome' = outcome
          /\ conn_log' = conn_log \o execute_sql_connection(outcome)
          /\ store' = store_after_execute(store, Get(state, "sql_query", <<>>), outcome)
          /\ RunNode("executor", execute_sql(state, outcome))
    /\ UNCHANGED <<llm_calls, llm_content, llm_prompt>>

Summarizer ==
    /\ pc = "summarizer"
    /\ Len(steps) < MaxSteps
    /\ \E reply \in LLMReplies(Summaries) :
          /\ llm_calls' = llm_calls + 1
          /\ llm_prompt' = summarize_prompt(state)
          /\ IF reply.ok
             THEN /\ llm_content' = reply.content
                  /\ RunNode("summarizer", summarize_result(state, reply.content))
             ELSE /\ llm_content' = llm_content
                  /\ RunNode("summarizer", Raise("LLMError"))
    /\ sqlite_outcome' = NoOutcome
    /\ UNCHANGED <<store, conn_log>>

Next == FetchSchema \/ Writer \/ Guardian \/ Executor \/ Summarizer

Spec == Init /\ [][Next]_vars

\* the graph runs the next node whenever there is one
FairSpec == Spec /\ WF_vars(Next)

\* ------------------------------------------------------------------ the functions called on their own

\* make_state() of the tests: all seven keys, with defaults
make_state == [question |-> <<>>, schema |-> <<>>, sql_query |-> <<>>, sql_safe |-> FALSE,
               result |-> <<>>, error |-> <<>>, retry_count |-> 0]

\* the pieces the statements handed to check_security are made of: the six keywords
\* in upper, lower and mixed case, a letter, an underscore, a digit, a space,
\* a single quote and a semicolon
Pieces == { <<"D", "R", "O", "P">>, <<"d", "e", "l", "e", "t", "e">>,
            <<"T", "r", "u", "n", "c", "a", "t", "e">>, <<"I", "N", "S", "E", "R", "T">>,
            <<"u", "p", "d", "a", "t", "e">>, <<"A", "l", "t", "e", "r">>,
            <<"d">>, <<"_">>, <<"1">>, <<" ">>, <<"'">>, <<";">> }

\* state['sql_query'] of the states handed to check_security
Statements == {Join(ps) : ps \in SeqsUpTo(Pieces, MaxPieces)}

\* an error left in the state by an earlier step
StaleError == <<"s", "t", "a", "l", "e">>

GateInit ==
    /\ \E q \in Statements, e \in {<<>>, StaleError} :
          state = [make_state EXCEPT !.sql_query = q, !.error = e]
    /\ pc = "call"
    /\ steps = <<>>
    /\ ret = NoCall
    /\ llm_calls = 0
    /\ llm_content = <<>>
    /\ llm_prompt = NoPrompt
    /\ store = SeededStore
    /\ sqlite_outcome = NoOutcome
    /\ conn_log = <<>>

\* agent.check_security(state)
CallCheckSecurity ==
    /\ pc = "call"
    /\ ret' = [fn |-> "check_security", value |-> check_security(state)]
    /\ pc' = "returned"
    /\ UNCHANGED <<state, steps, llm_calls, llm_content, llm_prompt, store, sqlite_outcome, conn_log>>

GateSpec == GateInit /\ [][CallCheckSecurity]_vars

\* ---- check_security called on two states that hold the same statement

\* the states that hold the statement, with every other field at one of the values
\* a run or a test gives it
StatesWith(query) ==
    {[question |-> q, schema |-> sch, sql_query |-> query, sql_safe |-> safe,
      result |-> res, error |-> e, retry_count |-> n] :
        q \in {<<>>, Question}, sch \in {<<>>, fetch_schema(SeededStore).schema},
        safe \in BOOLEAN, res \in {<<>>, NoDataFound}, e \in {<<>>, StaleError},
        n \in 0..MaxRetryIn}

PairInit ==
    /\ \E query \in Responses, e \in {<<>>, StaleError} :
       \E other \in StatesWith(query) :
          state = [first  |-> [make_state EXCEPT !.sql_query = query, !.error = e],
                   second |-> other]
    /\ pc = "call"
    /\ steps = <<>>
    /\ ret = NoCall
    /\ llm_calls = 0
    /\ llm_content = <<>>
    /\ llm_prompt = NoPrompt
    /\ store = SeededStore
    /\ sqlite_outcome = NoOutcome
    /\ conn_log = <<>>

\* agent.check_security(first), agent.check_security(second)
CallCheckSecurityTwice ==
    /\ pc = "call"
    /\ ret' = [fn |-> "check_security",
               value |-> [first  |-> check_security(state.first),
                          second |-> check_security(state.second)]]
    /\ pc' = "returned"
    /\ UNCHANGED <<state, steps, llm_calls, llm_content, llm_prompt, store, sqlite_outcome, conn_log>>

PairSpec == PairInit /\ [][CallCheckSecurityTwice]_vars

\* ---- several questions served at the same time on one company.db

\* the number of questions served at the same time
NumRuns == 2

Runs == 1..NumRuns

\* response.content of the writer's llm.invoke call, for the questions served
\* at the same time
ConcurrentResponses == {SelectOne, DropLower, CreateTable}

\* a question has arrived in every session; no agent has been created yet
ServeInit ==
    /\ state = [p \in Runs |-> Inputs]
    /\ pc = [p \in Runs |-> "create"]
    /\ steps = [p \in Runs |-> <<>>]
    /\ ret = NoCall
    /\ llm_calls = 0
    /\ llm_content = <<>>
    /\ llm_prompt = NoPrompt
    /\ store \in {EmptyStore, SeededStore}
    /\ sqlite_outcome = NoOutcome
    /\ conn_log = <<>>

\* one node execution of run p, with the statements it handed to sqlite3
RunNodeOf(p, node, update, statements) ==
    /\ ret' = [fn |-> node, run |-> p, value |-> update, statements |-> statements]
    /\ IF IsRaise(update)
       THEN /\ pc' = [pc EXCEPT ![p] = "aborted"]
            /\ UNCHANGED <<state, steps>>
       ELSE /\ state' = [state EXCEPT ![p] = Merge(state[p], update)]
            /\ steps' = [steps EXCEPT ![p] = Append(steps[p], node)]
            /\ pc' = [pc EXCEPT ![p] = NextNode(node, Merge(state[p], update))]

\* agent = SQLAgent(llm): setup_db()
CreateAgent(p) ==
    /\ pc[p] = "create"
    /\ store' = setup_db(store)
    /\ conn_log' = conn_log \o setup_db_connection
    /\ ret' = [fn |-> "setup_db", run |-> p, value |-> None, statements |-> setup_db_statements]
    /\ pc' = [pc EXCEPT ![p] = EntryPoint]
    /\ sqlite_outcome' = NoOutcome
    /\ UNCHANGED <<state, steps, llm_calls, llm_content, llm_prompt>>

ServeFetchSchema(p) ==
    /\ pc[p] = "fetch_schema"
    /\ \E connected \in BOOLEAN :
          /\ RunNodeOf(p, "fetch_schema",
                       IF connected THEN fetch_schema(store)
                       ELSE Raise("sqlite3.OperationalError"),
                       IF connected THEN fetch_schema_statements(store) ELSE <<>>)
          /\ conn_log' = conn_log \o fetch_schema_connection(connected)
    /\ sqlite_outcome' = NoOutcome
    /\ UNCHANGED <<llm_calls, llm_content, llm_prompt, store>>

ServeWriter(p) ==
    /\ pc[p] = "writer"
    /\ \E reply \in LLMReplies(ConcurrentResponses) :
          /\ llm_calls' = llm_calls + 1
          /\ llm_prompt' = write_sql_prompt(state[p])
          /\ IF reply.ok
             THEN /\ llm_content' = reply.content
                  /\ RunNodeOf(p, "writer", write_sql(state[p], reply.content), <<>>)
             ELSE /\ llm_content' = llm_content
                  /\ RunNodeOf(p, "writer", Raise("LLMError"), <<>>)
    /\ sqlite_outcome' = NoOutcome
    /\ UNCHANGED <<store, conn_log>>

ServeGuardian(p) ==
    /\ pc[p] = "guardian"
    /\ RunNodeOf(p, "guardian", check_security(state[p]), <<>>)
    /\ sqlite_outcome' = NoOutcome
    /\ UNCHANGED <<llm_calls, llm_content, llm_prompt, store, conn_log>>

ServeExecutor(p) ==
    /\ pc[p] = "executor"
    /\ \E outcome \in SqliteOutcomes(state[p].sql_query, store) :
          /\ sqlite_outcome' = outcome
          /\ conn_log' = conn_log \o execute_sql_connection(outcome)
          /\ store' = store_after_execute(store, state[p].sql_query, outcome)
          /\ RunNodeOf(p, "executor", execute_sql(state[p], outcome),
                       execute_sql_statements(state[p].sql_query, outcome))
    /\ UNCHANGED <<llm_calls, llm_content, llm_prompt>>

ServeSummarizer(p) ==
    /\ pc[p] = "summarizer"
    /\ \E reply \in LLMReplies(Summaries) :
          /\ llm_calls' = llm_calls + 1
          /\ llm_prompt' = summarize_prompt(state[p])
          /\ IF reply.ok
             THEN /\ llm_content' = reply.content
                  /\ RunNodeOf(p, "summarizer", summarize_result(state[p], reply.content), <<>>)
             ELSE /\ llm_content' = llm_content
                  /\ RunNodeOf(p, "summarizer", Raise("LLMError"), <<>>)
    /\ sqlite_outcome' = NoOutcome
    /\ UNCHANGED <<store, conn_log>>

ServeNext ==
    \E p \in Runs :
        \/ CreateAgent(p)
        \/ ServeFetchSchema(p)
        \/ ServeWriter(p)
        \/ ServeGuardian(p)
        \/ ServeExecutor(p)
        \/ ServeSummarizer(p)

ServeSpec == ServeInit /\ [][ServeNext]_vars

\* state['error'] of the states handed to the routing functions
ErrorValues == {<<>>, None, StaleError} \cup SqlErrors

\* the states handed to the routing functions: make_state with error, retry_count
\* and sql_safe overridden, and the same without the error key
RouteStates ==
    LET full == {[make_state EXCEPT !.error = e, !.retry_count = n, !.sql_safe = b] :
                    e \in ErrorValues, n \in 0..MaxRetryIn, b \in BOOLEAN}
    IN  full \cup {DropKey(st, "error") : st \in full}

RouteInit ==
    /\ state \in RouteStates
    /\ pc = "call"
    /\ steps = <<>>
    /\ ret = NoCall
    /\ llm_calls = 0
    /\ llm_content = <<>>
    /\ llm_prompt = NoPrompt
    /\ store = SeededStore
    /\ sqlite_outcome = NoOutcome
    /\ conn_log = <<>>

\* agent.route_after_execute(state)
CallRouteAfterExecute ==
    /\ pc = "call"
    /\ ret' = [fn |-> "route_after_execute", value |-> route_after_execute(state)]
    /\ pc' = "returned"
    /\ UNCHANGED <<state, steps, llm_calls, llm_content, llm_prompt, store, sqlite_outcome, conn_log>>

\* agent.route_after_security(state)
CallRouteAfterSecurity ==
    /\ pc = "call"
    /\ ret' = [fn |-> "route_after_security", value |-> route_after_security(state)]
    /\ pc' = "returned"
    /\ UNCHANGED <<state, steps, llm_calls, llm_content, llm_prompt, store, sqlite_outcome, conn_log>>

RouteNext == CallRouteAfterExecute \/ CallRouteAfterSecurity

RouteSpec == RouteInit /\ [][RouteNext]_vars

\* the pieces the model outputs handed to write_sql are made of: one, two and three
\* backquotes, the tagged fence marker, a space, a newline and a statement
FencePieces == { <<Backquote>>, <<Backquote, Backquote>>, Fence, FenceSql,
                 <<" ">>, <<"\n">>, SelectOne }

\* mock_llm.invoke.return_value.content of the calls of write_sql
Drafts == {Join(ps) : ps \in SeqsUpTo(FencePieces, MaxFencePieces)}

\* the states handed to write_sql: make_state with retry_count and error
\* overridden, and the same without the retry_count key
WriterStates ==
    LET full == {[make_state EXCEPT !.retry_count = n, !.error = e] :
                    n \in 0..MaxRetryIn, e \in {<<>>, StaleError}}
    IN  full \cup {DropKey(st, "retry_count") : st \in full}

WriterInit ==
    /\ state \in WriterStates
    /\ pc = "call"
    /\ steps = <<>>
    /\ ret = NoCall
    /\ llm_calls = 0
    /\ llm_content = <<>>
    /\ llm_prompt = NoPrompt
    /\ store = SeededStore
    /\ sqlite_outcome = NoOutcome
    /\ conn_log = <<>>

\* agent.write_sql(state)
CallWriteSql ==
    /\ pc = "call"
    /\ IF ~({"schema", "question", "error"} \subseteq DOMAIN state)
       THEN /\ ret' = [fn |-> "write_sql", value |-> Raise("KeyError")]
            /\ UNCHANGED <<llm_calls, llm_content, llm_prompt>>
       ELSE \E reply \in LLMReplies(Drafts) :
            /\ llm_calls' = llm_calls + 1
            /\ llm_prompt' = write_sql_prompt(state)
            /\ IF reply.ok
               THEN /\ llm_content' = reply.content
                    /\ ret' = [fn |-> "write_sql", value |-> write_sql(state, reply.content)]
               ELSE /\ llm_content' = llm_content
                    /\ ret' = [fn |-> "write_sql", value |-> Raise("LLMError")]
    /\ pc' = "returned"
    /\ UNCHANGED <<state, steps, store, sqlite_outcome, conn_log>>

WriterSpec == WriterInit /\ [][CallWriteSql]_vars

\* ---- fetch_schema called on its own, on the stores a company.db can hold

\* the number of tables of a store
MaxTables == 3

\* a table whose name is not one word: CREATE TABLE "a b" (x)
SpacedTable == [name |-> <<"a", " ", "b">>, columns |-> << [name |-> <<"x">>, type |-> <<>>] >>,
                rows |-> <<>>]

\* a table with two columns, one without a declared type: CREATE TABLE logs (id INTEGER, msg)
LogsTable == [name |-> <<"l", "o", "g", "s">>,
              columns |-> << [name |-> <<"i", "d">>, type |-> <<"I", "N", "T", "E", "G", "E", "R">>],
                             [name |-> <<"m", "s", "g">>, type |-> <<>>] >>,
              rows |-> <<>>]

\* the tables a store is made of: the two of setup_db and those a statement added
TablePool == {SeededStore[1], SeededStore[2], NewTable, SpacedTable, LogsTable}

\* the stores: up to MaxTables different tables, in the order they were created
Stores ==
    UNION {{db \in [1..n -> TablePool] : \A i, j \in 1..n : i # j => db[i] # db[j]} :
              n \in 0..MaxTables}

SchemaInit ==
    /\ store \in Stores
    /\ state = make_state
    /\ pc = "call"
    /\ steps = <<>>
    /\ ret = NoCall
    /\ llm_calls = 0
    /\ llm_content = <<>>
    /\ llm_prompt = NoPrompt
    /\ sqlite_outcome = NoOutcome
    /\ conn_log = <<>>

\* agent.fetch_schema(state)
CallFetchSchema ==
    /\ pc = "call"
    /\ ret' = [fn |-> "fetch_schema", value |-> fetch_schema(store)]
    /\ conn_log' = conn_log \o fetch_schema_connection(TRUE)
    /\ pc' = "returned"
    /\ UNCHANGED <<state, steps, llm_calls, llm_content, llm_prompt, store, sqlite_outcome>>

SchemaSpec == SchemaInit /\ [][CallFetchSchema]_vars

\* ---- setup_db called in sequence, on the stores a company.db can hold

\* the number of calls in sequence
MaxSetupCalls == 3

\* the two tables created and not yet filled
CreatedStore ==
    create_table_if_not_exists(
        create_table_if_not_exists(EmptyStore, Departments, DepartmentsColumns),
        Employees, EmployeesColumns)

SetupInit ==
    /\ store \in Stores \cup {CreatedStore}
    /\ state = make_state
    /\ pc = "call"
    /\ steps = <<>>
    /\ ret = NoCall
    /\ llm_calls = 0
    /\ llm_content = <<>>
    /\ llm_prompt = NoPrompt
    /\ sqlite_outcome = NoOutcome
    /\ conn_log = <<>>

\* setup_db()
CallSetupDb ==
    /\ pc = "call"
    /\ Len(steps) < MaxSetupCalls
    /\ store' = setup_db(store)
    /\ steps' = Append(steps, "setup_db")
    /\ ret' = [fn |-> "setup_db", value |-> None]
    /\ conn_log' = conn_log \o setup_db_connection
    /\ UNCHANGED <<state, pc, llm_calls, llm_content, llm_prompt, sqlite_outcome>>

SetupSpec == SetupInit /\ [][CallSetupDb]_vars

\* ---- the helpers of app.py, called on their own

\* the number of models a provider's SDK lists
MaxModels == 2

\* the characters of model names, in code point order
CharOrder ==
    <<"-", ".", "/", "0", "1", "2", "3", "4", "5", "6", "7", "8", "9", ":">>
    \o UpperLetters \o <<"_">> \o LowerLetters
Ord(c) == CHOOSE i \in 1..Len(CharOrder) : CharOrder[i] = c

\* a < b for two str values
RECURSIVE str_less(_, _)
str_less(a, b) ==
    IF b = <<>> THEN FALSE
    ELSE IF a = <<>> THEN TRUE
    ELSE IF a[1] # b[1] THEN Ord(a[1]) < Ord(b[1])
    ELSE str_less(Tail(a), Tail(b))

\* sorted(items, reverse=True)
RECURSIVE sorted_reverse(_)
sorted_reverse(items) ==
    IF items = <<>> THEN <<>>
    ELSE LET top == CHOOSE i \in 1..Len(items) :
                        /\ \A k \in 1..Len(items) : ~str_less(items[i], items[k])
                        /\ \A k \in 1..(i - 1) : items[k] # items[i]
         IN  <<items[top]>>
             \o sorted_reverse([k \in 1..(Len(items) - 1) |->
                                   IF k < top THEN items[k] ELSE items[k + 1]])

\* ["claude-3-5-sonnet-latest", "claude-3-5-haiku-latest", "claude-3-opus-latest"]
AnthropicModels ==
    << <<"c","l","a","u","d","e","-","3","-","5","-","s","o","n","n","e","t","-","l","a","t","e","s","t">>,
       <<"c","l","a","u","d","e","-","3","-","5","-","h","a","i","k","u","-","l","a","t","e","s","t">>,
       <<"c","l","a","u","d","e","-","3","-","o","p","u","s","-","l","a","t","e","s","t">> >>

\* get_available_models(provider, api_key) with what the provider's SDK does:
\* value is the returned value or the raised exception, st_error the exception
\* whose message st.error shows (None when st.error is not called)
get_available_models(provider, api_key, sdk) ==
    LET Returns(v) == [value |-> v, st_error |-> None]
        Caught == [value |-> <<>>, st_error |-> <<sdk.exc>>]
    IN  IF provider = "Ollama"
        THEN IF sdk.kind = "raise" THEN Caught
             ELSE IF sdk.kind = "objects"
             THEN Returns([i \in 1..Len(sdk.objects) |-> sdk.objects[i].model])
             ELSE Returns([i \in 1..Len(sdk.dicts) |-> sdk.dicts[i].name])
        ELSE IF provider = "OpenAI"
        THEN IF ~Truthy(api_key) THEN Returns(<<>>)
             ELSE IF sdk.kind = "raise" THEN Caught
             ELSE LET chat(id) == Contains(id, <<"g", "p", "t">>) \/ Contains(id, <<"o", "1">>)
                  IN  Returns(sorted_reverse(SelectSeq(sdk.ids, chat)))
        ELSE IF provider = "Gemini"
        THEN IF ~Truthy(api_key) THEN Returns(<<>>)
             ELSE IF sdk.kind = "raise" THEN Caught
             ELSE LET short(m) == str_remove(m.name, <<"m", "o", "d", "e", "l", "s", "/">>)
                      generates(m) == "generateContent" \in m.supported_generation_methods
                      kept == SelectSeq(sdk.listed, generates)
                  IN  Returns([i \in 1..Len(kept) |-> short(kept[i])])
        ELSE IF provider = "Anthropic"
        THEN Returns(AnthropicModels)
        ELSE Returns(None)

\* get_llm_instance(provider, model_name, api_key): the chat model built, or the
\* exception of its constructor
get_llm_instance(provider, model_name, api_key, sdk) ==
    IF provider = "Ollama"
    THEN IF sdk.kind = "raise" THEN Raise(sdk.exc)
         ELSE Returned([class |-> "ChatOllama", model |-> model_name])
    ELSE IF provider = "OpenAI"
    THEN IF sdk.kind = "raise" THEN Raise(sdk.exc)
         ELSE Returned([class |-> "ChatOpenAI", api_key |-> api_key, model |-> model_name])
    ELSE IF provider = "Gemini"
    THEN IF sdk.kind = "raise" THEN Raise(sdk.exc)
         ELSE Returned([class |-> "ChatGoogleGenerativeAI", google_api_key |-> api_key, model |-> model_name])
    ELSE IF provider = "Anthropic"
    THEN IF sdk.kind = "raise" THEN Raise(sdk.exc)
         ELSE Returned([class |-> "ChatAnthropic", api_key |-> api_key, model |-> model_name])
    ELSE Returned(None)

\* the provider names of the sidebar, a name that is none of them, and the empty name
Providers == {"Ollama", "OpenAI", "Gemini", "Anthropic", "UnknownProvider", ""}
KnownProviders == {"Ollama", "OpenAI", "Gemini", "Anthropic"}

\* api_key: None, "" and a key
ApiKeys == {None, <<>>, <<"k", "e", "y">>}

\* model names
Llama3 == <<"l", "l", "a", "m", "a", "3">>
Mistral == <<"m", "i", "s", "t", "r", "a", "l", ":", "l", "a", "t", "e", "s", "t">>
Gpt4o == <<"g", "p", "t", "-", "4", "o">>
O1Mini == <<"o", "1", "-", "m", "i", "n", "i">>
Whisper == <<"w", "h", "i", "s", "p", "e", "r", "-", "1">>
GeminiPro == [name |-> <<"m", "o", "d", "e", "l", "s", "/", "g", "e", "m", "i", "n", "i", "-", "p", "r", "o">>,
              supported_generation_methods |-> {"generateContent", "countTokens"}]
Embedding == [name |-> <<"m", "o", "d", "e", "l", "s", "/", "e", "m", "b", "e", "d">>,
              supported_generation_methods |-> {"embedContent"}]

\* what the call into a provider's SDK does: an exception, or the models listed
SdkOutcomes(provider) ==
    IF provider \notin KnownProviders THEN {[kind |-> "unused"]}
    ELSE {[kind |-> "raise", exc |-> "ConnectionError"]}
         \cup IF provider = "Ollama"
              THEN {[kind |-> "objects", objects |-> ms] :
                        ms \in SeqsUpTo({[model |-> Llama3], [model |-> Mistral]}, MaxModels)}
                   \cup {[kind |-> "dicts", dicts |-> ms] :
                        ms \in SeqsUpTo({[name |-> Llama3], [name |-> Mistral]}, MaxModels)}
              ELSE IF provider = "OpenAI"
              THEN {[kind |-> "page", ids |-> ms] :
                        ms \in SeqsUpTo({Gpt4o, O1Mini, Whisper}, MaxModels)}
              ELSE IF provider = "Gemini"
              THEN {[kind |-> "listing", listed |-> ms] :
                        ms \in SeqsUpTo({GeminiPro, Embedding}, MaxModels)}
              ELSE {[kind |-> "built"]}

\* the arguments of a call, with what the SDK will do
HelperInit ==
    /\ \E provider \in Providers, api_key \in ApiKeys, model_name \in {Llama3, Gpt4o} :
       \E sdk \in SdkOutcomes(provider) :
          state = [provider |-> provider, api_key |-> api_key,
                   model_name |-> model_name, sdk |-> sdk]
    /\ pc = "call"
    /\ steps = <<>>
    /\ ret = NoCall
    /\ llm_calls = 0
    /\ llm_content = <<>>
    /\ llm_prompt = NoPrompt
    /\ store = SeededStore
    /\ sqlite_outcome = NoOutcome
    /\ conn_log = <<>>

\* get_available_models(provider, api_key)
CallGetAvailableModels ==
    /\ pc = "call"
    /\ LET r == get_available_models(state.provider, state.api_key, state.sdk)
       IN  ret' = [fn |-> "get_available_models", value |-> r.value, st_error |-> r.st_error]
    /\ pc' = "returned"
    /\ UNCHANGED <<state, steps, llm_calls, llm_content, llm_prompt, store, sqlite_outcome, conn_log>>

\* get_llm_instance(provider, model_name, api_key)
CallGetLlmInstance ==
    /\ pc = "call"
    /\ ret' = [fn |-> "get_llm_instance",
               value |-> get_llm_instance(state.provider, state.model_name,
                                          state.api_key, state.sdk)]
    /\ pc' = "returned"
    /\ UNCHANGED <<state, steps, llm_calls, llm_content, llm_prompt, store, sqlite_outcome, conn_log>>

HelperNext == CallGetAvailableModels \/ CallGetLlmInstance

HelperSpec == HelperInit /\ [][HelperNext]_vars

\* ------------------------------------------------------------------ what the claims speak of

\* the number of times a node has completed in the run so far
Count(node) == Cardinality({i \in 1..Len(steps) : steps[i] = node})

\* the last node completed, "none" before the first
LastStep == IF steps = <<>> THEN "none" ELSE steps[Len(steps)]

\* the node has just completed and the graph is about to take its outgoing edge
JustRan(node) == LastStep = node /\ ret.fn = node /\ pc # "aborted"

\* the node completed before the last one
StepBeforeLast == IF Len(steps) < 2 THEN "none" ELSE steps[Len(steps) - 1]

\* the six disallowed keywords, in the scan order the specification fixes
ScanOrder == << <<"D", "R", "O", "P">>, <<"D", "E", "L", "E", "T", "E">>,
                <<"T", "R", "U", "N", "C", "A", "T", "E">>, <<"I", "N", "S", "E", "R", "T">>,
                <<"U", "P", "D", "A", "T", "E">>, <<"A", "L", "T", "E", "R">> >>

\* character c is the upper-case letter C in either letter case
FoldsTo(c, C) == c = C \/ \E j \in 1..26 : UpperLetters[j] = C /\ LowerLetters[j] = c

\* text[i .. i + Len(keyword) - 1] spells the keyword in some letter case
SpellsAt(keyword, text, i) ==
    /\ i >= 1
    /\ i + Len(keyword) - 1 <= Len(text)
    /\ \A p \in 1..Len(keyword) : FoldsTo(text[i + p - 1], keyword[p])

\* the characters of an SQL identifier or keyword
IdChars == WordChars \cup {"$"}

\* position i lies inside a single-quoted string literal (or an unterminated one)
InLiteral(text, i) == Cardinality({j \in 1..(i - 1) : text[j] = "'"}) % 2 = 1

\* every single-quoted literal of the text is closed
LiteralsClosed(text) == Cardinality({j \in 1..Len(text) : text[j] = "'"}) % 2 = 0

\* the keyword is a token of the statement: outside every string literal, and
\* neither preceded nor followed by an identifier character
IsKeywordTokenAt(keyword, text, i) ==
    /\ SpellsAt(keyword, text, i)
    /\ ~InLiteral(text, i)
    /\ (i = 1 \/ text[i - 1] \notin IdChars)
    /\ (i + Len(keyword) > Len(text) \/ text[i + Len(keyword)] \notin IdChars)

IsKeywordToken(keyword, text) == \E i \in 1..Len(text) : IsKeywordTokenAt(keyword, text, i)

HasKeywordToken(text) == \E k \in 1..Len(ScanOrder) : IsKeywordToken(ScanOrder[k], text)

\* the error text the specification gives for a blocked keyword
ExpectedGateError(keyword) ==
    <<"F", "o", "r", "b", "i", "d", "d", "e", "n", " ", "k", "e", "y", "w", "o", "r", "d", " ", "'">>
    \o keyword \o <<"'", " ", "d", "e", "t", "e", "c", "t", "e", "d", ".">>

\* ------------------------------------------------------------------ C1

\* the run ended on a failed execution: retries exhausted
EndedByExhaustion ==
    /\ pc = "END"
    /\ StepBeforeLast = "executor"
    /\ Truthy(state.error)

\* C1: in a run started with retry_count = 0 and error = "", the writer runs at most
\* 3 times (it is next only while fewer than 3 drafts were made); after the third
\* failed execution the summarizer is next, not a fourth draft; and a run that ends
\* on a failed execution ends with retry_count >= 3.
C1_AtMostThreeDrafts ==
    /\ Count("writer") <= 3
    /\ (pc = "writer" => Count("writer") < 3)
    /\ (JustRan("executor") /\ Truthy(state.error) /\ Count("executor") = 3
            => pc = "summarizer")
    /\ (EndedByExhaustion => state.retry_count >= 3 /\ Count("writer") = 3)

\* a run in which three executions failed and which ended with the summary
C1_Witness ==
    /\ EndedByExhaustion
    /\ Count("executor") = 3
    /\ state.retry_count = 3

\* ------------------------------------------------------------------ C2

\* C2: the executor runs only right after a security check that returned
\* sql_safe = true for the statement in the state, and no statement with a
\* disallowed keyword as a token is in the state when the executor runs or has run.
C2_ExecutorOnlyAfterPass ==
    /\ (pc = "executor" =>
            /\ LastStep = "guardian"
            /\ ret.fn = "guardian"
            /\ ret.value.sql_safe = TRUE
            /\ state.sql_safe = TRUE
            /\ ~HasKeywordToken(state.sql_query))
    /\ (LastStep = "executor" =>
            /\ StepBeforeLast = "guardian"
            /\ state.sql_safe = TRUE
            /\ ~HasKeywordToken(state.sql_query))

\* the executor has run on a statement that spells DROP inside a longer word
C2_Witness ==
    /\ LastStep = "executor"
    /\ \E i \in 1..Len(state.sql_query) : SpellsAt(ScanOrder[1], state.sql_query, i)

\* ------------------------------------------------------------------ C3

\* the gate has just blocked the draft in the state
JustBlocked == JustRan("guardian") /\ state.sql_safe = FALSE

\* the error names a disallowed keyword that the statement spells
IsBlockError(error, statement) ==
    \E k \in 1..Len(ScanOrder) :
        /\ error = ExpectedGateError(ScanOrder[k])
        /\ \E i \in 1..Len(statement) : SpellsAt(ScanOrder[k], statement, i)

\* C3 (states): after a block, on the first draft or a retry draft, the summarizer is
\* next whatever retry_count is; the state it is given holds the block error and
\* no result text (result never set, or set empty by a failed execution).
C3_BlockedState ==
    JustBlocked =>
        /\ pc = "summarizer"
        /\ IsBlockError(state.error, state.sql_query)
        /\ Get(state, "result", <<>>) = <<>>

\* C3 (steps): the step taken from a blocked state is the summarizer, called with
\* that state, unless its model call fails; never the executor or the writer.
C3_BlockedStep ==
    JustBlocked =>
        \/ /\ steps' = Append(steps, "summarizer")
           /\ llm_prompt' = [node |-> "summarizer", question |-> state.question,
                             sql_query |-> state.sql_query,
                             result |-> Get(state, "result", <<"N", "/", "A">>),
                             error |-> state.error]
        \/ /\ pc' = "aborted"
           /\ steps' = steps

\* C3: a security block goes straight to the summarizer and is never retried.
C3_BlockGoesToSummarizer == []C3_BlockedState /\ [][C3_BlockedStep]_vars

\* the summarizer has run right after a block of the second draft
C3_Witness ==
    /\ LastStep = "summarizer"
    /\ StepBeforeLast = "guardian"
    /\ state.retry_count = 2
    /\ state.sql_safe = FALSE
    /\ Count("executor") = 1

\* ------------------------------------------------------------------ C4

\* the run is complete and result holds the summarizer's answer
Completed ==
    /\ pc = "END"
    /\ "result" \in DOMAIN state
    /\ state.result \in Summaries

\* C4: a run in which no model call and no store call fails reaches the terminal
\* state with a prose answer in result, whatever the model drafts.
C4_AlwaysAnswers == [](pc # "aborted") => <>Completed

\* a run completed after the gate blocked the third draft
C4_Witness ==
    /\ Completed
    /\ state.sql_safe = FALSE
    /\ state.retry_count = 3

\* ------------------------------------------------------------------ C5

\* C5: the summarizer runs at most once, nothing runs after it, and a completed
\* run has run it exactly once, as its last step.
C5_SummarizerOnceAndLast ==
    /\ Count("summarizer") <= 1
    /\ (Count("summarizer") = 1 => LastStep = "summarizer" /\ pc = "END")
    /\ (pc = "END" => Count("summarizer") = 1 /\ LastStep = "summarizer")

\* a completed run on the success path
C5_Witness ==
    /\ pc = "END"
    /\ steps = <<"fetch_schema", "writer", "guardian", "executor", "summarizer">>
    /\ state.error = <<>>

\* ------------------------------------------------------------------ C6

\* route_after_execute has returned for a state whose error is a string
RoutedOnString ==
    /\ pc = "returned"
    /\ ret.fn = "route_after_execute"
    /\ "error" \in DOMAIN state
    /\ state.error # None

\* C6: with an empty error route_after_execute returns "summarize" for every
\* retry_count; with a non-empty error it returns "retry" exactly when retry_count
\* is 0, 1 or 2, and "summarize" when retry_count is 3 or more.
C6_RouteAfterExecuteTable ==
    RoutedOnString =>
        /\ (state.error = <<>> => ret.value = "summarize")
        /\ (state.error # <<>> =>
                /\ (ret.value = "retry" <=> state.retry_count \in {0, 1, 2})
                /\ (state.retry_count >= 3 => ret.value = "summarize"))

\* route_after_execute returned "summarize" for an error at retry_count = 3
C6_Witness ==
    /\ RoutedOnString
    /\ state.error # <<>>
    /\ state.retry_count = 3
    /\ ret.value = "summarize"

\* ------------------------------------------------------------------ C7

\* C7: route_after_execute takes an error that is None, or that is absent from the
\* state, as no error: it returns "summarize" and does not fail.
C7_AbsentErrorIsNoError ==
    /\ pc = "returned"
    /\ ret.fn = "route_after_execute"
    /\ ("error" \notin DOMAIN state \/ state.error = None)
    => ret.value = "summarize"

\* ------------------------------------------------------------------ C8

\* check_security has returned for the statement in the state
GateReturned == pc = "returned" /\ ret.fn = "check_security"

\* C8: a statement with one of the six keywords as a token, in any letter case, is
\* blocked: sql_safe is false and the error is exactly
\* Forbidden keyword '<KEYWORD>' detected. for a keyword the statement spells.
C8_KeywordTokenBlocked ==
    GateReturned /\ HasKeywordToken(state.sql_query) =>
        /\ ret.value.sql_safe = FALSE
        /\ IsBlockError(ret.value.error, state.sql_query)

\* check_security blocked a statement whose only keyword is delete in lower case
C8_Witness ==
    /\ GateReturned
    /\ IsKeywordToken(ScanOrder[2], state.sql_query)
    /\ ~Contains(state.sql_query, ScanOrder[2])
    /\ \A k \in {1, 3, 4, 5, 6} : ~IsKeywordToken(ScanOrder[k], state.sql_query)
    /\ ret.value = [sql_safe |-> FALSE, error |-> ExpectedGateError(ScanOrder[2])]

\* ------------------------------------------------------------------ C9

\* C9: a statement in which every disallowed keyword spelled lies inside an
\* identifier or inside a string literal, none being a token of the statement, is
\* allowed. Stated for statements whose string literals are all closed.
C9_EmbeddedKeywordAllowed ==
    /\ GateReturned
    /\ LiteralsClosed(state.sql_query)
    /\ ~HasKeywordToken(state.sql_query)
    => ret.value.sql_safe = TRUE

\* ------------------------------------------------------------------ C10

\* the keyword stands in the statement as a whole word in some letter case:
\* a maximal run of letters, digits and underscores
IsWholeWordAt(keyword, text, i) ==
    /\ SpellsAt(keyword, text, i)
    /\ (i = 1 \/ text[i - 1] \notin WordChars)
    /\ (i + Len(keyword) > Len(text) \/ text[i + Len(keyword)] \notin WordChars)

\* the scan-order indices of the keywords that stand in the statement as whole words
WholeWordKeywords(text) ==
    {k \in 1..Len(ScanOrder) : \E i \in 1..Len(text) : IsWholeWordAt(ScanOrder[k], text, i)}

\* C10: when several disallowed keywords stand in a statement, the error names the
\* one that comes first in the scan order DROP, DELETE, TRUNCATE, INSERT, UPDATE,
\* ALTER, wherever the keywords stand in the text.
C10_FirstInScanOrderWins ==
    GateReturned /\ Cardinality(WholeWordKeywords(state.sql_query)) >= 2 =>
        /\ ret.value.sql_safe = FALSE
        /\ ret.value.error = ExpectedGateError(ScanOrder[Min(WholeWordKeywords(state.sql_query))])

\* check_security named DROP for a statement in which delete stands before DROP
C10_Witness ==
    /\ GateReturned
    /\ \E i, j \in 1..Len(state.sql_query) :
          /\ i < j
          /\ IsWholeWordAt(ScanOrder[2], state.sql_query, i)
          /\ IsWholeWordAt(ScanOrder[1], state.sql_query, j)
    /\ ret.value.error = ExpectedGateError(ScanOrder[1])

\* ------------------------------------------------------------------ C11

\* the gate has just run on a statement it allows: it returned sql_safe = true, or
\* the statement holds none of the six keywords as a whole word
JustAllowed ==
    /\ JustRan("guardian")
    /\ (ret.value.sql_safe = TRUE \/ WholeWordKeywords(state.sql_query) = {})

\* C11 (states): on an allowed statement check_security returns exactly
\* {sql_safe: true, error: ""}, and the merged state holds an empty error.
C11_AllowedState ==
    JustAllowed =>
        /\ ret.value = [sql_safe |-> TRUE, error |-> <<>>]
        /\ state.sql_safe = TRUE
        /\ state.error = <<>>

\* C11 (steps): a guardian step that allows the draft leaves the error empty
\* whatever error the state carried into the step.
C11_AllowedStep ==
    pc = "guardian" /\ steps' = Append(steps, "guardian") /\ pc' = "executor"
        => state'.error = <<>> /\ ret'.value.error = <<>>

\* C11: an allowed statement clears the error of the state.
C11_AllowClearsError == []C11_AllowedState /\ [][C11_AllowedStep]_vars

\* the gate has allowed a retry draft: the state it was given carried the error of
\* the failed execution, the merged state carries none
C11_Witness ==
    /\ JustAllowed
    /\ Count("executor") = 1
    /\ state.retry_count = 2
    /\ state.result = <<>>
    /\ state.error = <<>>

\* ------------------------------------------------------------------ C12

\* write_sql has been called on the state and has returned or raised
WriteSqlCalled == pc = "returned" /\ ret.fn = "write_sql"

\* write_sql has returned a value
WriteSqlReturned == WriteSqlCalled /\ DOMAIN ret.value = {"sql_query", "retry_count"}

\* C12: one invocation of write_sql calls the language model exactly once, and the
\* retry_count it returns is the incoming retry_count plus 1, a missing
\* retry_count counting as 0.
C12_OneCallOneIncrement ==
    /\ (WriteSqlCalled => llm_calls = 1)
    /\ (WriteSqlCalled /\ DOMAIN ret.value # {"raise"} => WriteSqlReturned)
    /\ (WriteSqlReturned =>
            ret.value.retry_count =
                (IF "retry_count" \in DOMAIN state THEN state.retry_count ELSE 0) + 1)

\* write_sql returned retry_count = 1 for a state without retry_count
C12_Witness ==
    /\ WriteSqlReturned
    /\ "retry_count" \notin DOMAIN state
    /\ ret.value.retry_count = 1
    /\ llm_calls = 1

\* ------------------------------------------------------------------ C13

\* three consecutive backquotes stand in the text
HasFenceMarker(text) ==
    \E i \in 1..(Len(text) - 2) :
        text[i] = Backquote /\ text[i + 1] = Backquote /\ text[i + 2] = Backquote

\* C13: whatever the model returns, the sql_query write_sql returns holds no three
\* consecutive backquotes, also when removing a tagged marker brings the
\* backquotes around it together.
C13_NoFenceMarkerLeft == WriteSqlReturned => ~HasFenceMarker(ret.value.sql_query)

\* the output was two backquotes, a tagged marker and one backquote: removing the
\* marker joins the three backquotes around it, and they are removed in turn
C13_Witness ==
    /\ WriteSqlReturned
    /\ llm_content = <<Backquote, Backquote, Backquote, Backquote, Backquote,
                       "s", "q", "l", Backquote>>
    /\ ret.value.sql_query = <<>>

\* ------------------------------------------------------------------ C14

\* the text neither starts nor ends with a whitespace character
NoOuterWhitespace(text) ==
    text = <<>> \/ (text[1] \notin {" ", "\n", "\t", "\r"}
                    /\ text[Len(text)] \notin {" ", "\n", "\t", "\r"})

\* C14: whatever the model returns, fenced or not, the sql_query write_sql returns
\* has no fence marker left and neither starts nor ends with whitespace.
C14_FencesAndWhitespaceStripped ==
    WriteSqlReturned =>
        /\ ~HasFenceMarker(ret.value.sql_query)
        /\ NoOuterWhitespace(ret.value.sql_query)

\* ------------------------------------------------------------------ C15

StatementWasRun == ret.fn = "executor" /\ sqlite_outcome.kind # "no_connection"

\* C16: once the store is open, whatever happens while the drafted statement runs
\* comes back as a result or an error value and the run goes on to the writer or
\* the summarizer; and a security block goes on to the summarizer. Neither ends
\* the run with an exception.
C16_NoExecutionFailureEscapes ==
    /\ (StatementWasRun =>
            /\ pc \in {"writer", "summarizer"}
            /\ DOMAIN ret.value = {"result", "error"})
    /\ (ret.fn = "guardian" => pc \in {"executor", "summarizer"})

\* ------------------------------------------------------------------ C17

\* C17 (states): the result of a completed run is the content of the model's
\* response to the summarizer's call, character for character; the model was
\* called once per draft and once by the summarizer.
C17_FinalState ==
    pc = "END" =>
        /\ llm_prompt.node = "summarizer"
        /\ ret = [fn |-> "summarizer", value |-> [result |-> llm_content]]
        /\ state.result = llm_content
        /\ llm_calls = Count("writer") + 1

\* C17 (steps): one summarizer step is one call of the model.
C17_SummarizerStep == pc = "summarizer" => llm_calls' = llm_calls + 1

\* C17: the final result is the summarizer's model output, unmodified, from the
\* only model call the summarizer makes.
C17_FinalResultIsSummary == []C17_FinalState /\ [][C17_SummarizerStep]_vars

\* a run completed after a retry that found rows: the text of the rows was in
\* result when the summarizer ran, the model's answer is in result at the end
C17_Witness ==
    /\ pc = "END"
    /\ Count("writer") = 2
    /\ llm_calls = 3
    /\ llm_prompt.result = <<"[", "(", "1", ",", ")", "]">>
    /\ state.result = llm_content
    /\ state.result # llm_prompt.result

\* ------------------------------------------------------------------ C18

\* C18 (steps): whatever state the summarizer is handed, its step completes and
\* ends the run unless the model call itself fails; its prompt shows the result
\* of the state, and N/A when the state has none.
C18_SummarizerStep ==
    pc = "summarizer" =>
        /\ \/ /\ steps' = Append(steps, "summarizer")
              /\ pc' = "END"
              /\ DOMAIN ret'.value = {"result"}
           \/ /\ ret'.value = [raise |-> "LLMError"]
              /\ pc' = "aborted"
        /\ llm_prompt'.node = "summarizer"
        /\ llm_prompt'.result = (IF "result" \in DOMAIN state THEN state.result
                                 ELSE <<"N", "/", "A">>)
        /\ llm_prompt'.error = state.error

\* C18: summarize_result does not fail on any state the graph hands it.
C18_SummarizerNeverFails == [][C18_SummarizerStep]_vars

\* the summarizer completed on a state in which result was never set: the first
\* draft was blocked
C18_Witness ==
    /\ JustRan("summarizer")
    /\ Count("executor") = 0
    /\ state.retry_count = 1
    /\ llm_prompt.result = <<"N", "/", "A">>
    /\ llm_prompt.error # <<>>

\* ------------------------------------------------------------------ C19

\* C19: the final state of a completed run started from question,
\* retry_count = 0 and error = "" holds all seven keys of AgentState, whichever
\* path the run took: success, security block or retries exhausted.
C19_FinalStateHasAllKeys ==
    pc = "END" =>
        DOMAIN state = {"question", "schema", "sql_query", "sql_safe",
                        "result", "error", "retry_count"}

\* a run completed on the security-block path of the first draft, where no step
\* before the summarizer sets result
C19_Witness ==
    /\ pc = "END"
    /\ steps = <<"fetch_schema", "writer", "guardian", "summarizer">>
    /\ state.sql_safe = FALSE
    /\ "result" \in DOMAIN state

\* ------------------------------------------------------------------ C20

\* the dictionary with the keys of the update written over it
Overwrite(st, update) ==
    [k \in DOMAIN st \cup DOMAIN update |-> IF k \in DOMAIN update THEN update[k] ELSE st[k]]

\* C20 (states): before the first event the state is the inputs; the first event
\* is fetch_schema's; a completed run has yielded the summarizer's event last.
C20_StreamState ==
    /\ (steps = <<>> =>
            /\ DOMAIN state = {"question", "retry_count", "error"}
            /\ state.retry_count = 0
            /\ state.error = <<>>)
    /\ (steps # <<>> => steps[1] = "fetch_schema")
    /\ (pc = "END" => LastStep = "summarizer" /\ ret.fn = "summarizer")

\* C20 (steps): a step that completes yields one event, the step's name with the
\* update it returned, and the state after it is the state before it with that
\* update written over it; a step that does not complete yields nothing and
\* leaves the state alone.
C20_StreamStep ==
    /\ (pc' # "aborted" =>
            /\ steps' = Append(steps, ret'.fn)
            /\ ret'.fn = pc
            /\ state' = Overwrite(state, ret'.value))
    /\ (pc' = "aborted" => steps' = steps /\ state' = state)

CallFailed ==
    \/ ret.fn \in {"writer", "summarizer"} /\ ret.value = [raise |-> "LLMError"]
    \/ ret.fn = "fetch_schema" /\ DOMAIN ret.value = {"raise"}

\* C21 (states): when a model call fails in the writer or the summarizer, or the
\* store fails under fetch_schema, the run is aborted at that step; the step is
\* not among the completed ones.
C21_AbortedState ==
    CallFailed =>
        /\ pc = "aborted"
        /\ (ret.fn = "fetch_schema" => steps = <<>>)
        /\ (ret.fn = "summarizer" => Count("summarizer") = 0)
        /\ (ret.fn = "writer" => LastStep \in {"fetch_schema", "executor"})

\* C21 (steps): nothing runs in an aborted run: no later step, no second attempt.
C21_AbortedStep == pc = "aborted" => UNCHANGED vars

\* C21: a failed model call or schema read ends the run where it happened.
C21_FailureAborts == []C21_AbortedState /\ [][C21_AbortedStep]_vars

\* the model call of the second draft failed: the run is aborted after one
\* execution, with two model calls made
C21_Witness ==
    /\ CallFailed
    /\ ret.fn = "writer"
    /\ pc = "aborted"
    /\ Count("executor") = 1
    /\ llm_calls = 2

\* ------------------------------------------------------------------ C22

\* C22: whatever statements the model drafts, no executed statement changes the
\* tables or rows of the store: at every point of a run the store holds what it
\* held when the run began.
C22_RunIsReadOnly == store = SeededStore

\* the line of one table: Table '<name>': <col> (<type>), ..., every column listed
RECURSIVE C23_Columns(_)
C23_Columns(cols) ==
    IF cols = <<>> THEN <<>>
    ELSE cols[1].name \o <<" ", "(">> \o cols[1].type \o <<")">>
         \o (IF Len(cols) > 1 THEN <<",", " ">> ELSE <<>>) \o C23_Columns(Tail(cols))

RECURSIVE C23_Lines(_)
C23_Lines(db) ==
    IF db = <<>> THEN <<>>
    ELSE <<"T", "a", "b", "l", "e", " ", "'">> \o db[1].name \o <<"'", ":", " ">>
         \o C23_Columns(db[1].columns) \o <<"\n">> \o C23_Lines(Tail(db))

\* C23: fetch_schema returns one line Table '<name>': <col> (<type>), ... per table
\* of the store, with every column of the table, and the empty string for a store
\* without tables. (That the call leaves the store alone is the UNCHANGED of
\* CallFetchSchema; the store of the state after the call is the one read.)
C23_OneLinePerTable ==
    ret.fn = "fetch_schema" =>
        /\ DOMAIN ret.value = {"schema"}
        /\ ret.value.schema = C23_Lines(store)

\* the rows of the table of that name, by primary key
C24_Rows(name) == (CHOOSE t \in {store[i] : i \in 1..Len(store)} : t.name = name).rows

\* the store has one table of that name, with exactly the seed rows and no row twice
C24_Seeded(name, seed) ==
    /\ Cardinality({i \in 1..Len(store) : store[i].name = name}) = 1
    /\ DOMAIN C24_Rows(name) = DOMAIN seed
    /\ \A k \in DOMAIN seed : C24_Rows(name)[k] = seed[k]
    /\ \A k, l \in DOMAIN seed : k # l => C24_Rows(name)[k] # C24_Rows(name)[l]

C24_AfterOneCall ==
    steps # <<>> =>
        /\ C24_Seeded(Departments, SeedDepartments)
        /\ C24_Seeded(Employees, SeedEmployees)
        /\ Cardinality(DOMAIN C24_Rows(Departments)) = 3
        /\ Cardinality(DOMAIN C24_Rows(Employees)) = 5

C24_FurtherCall == steps # <<>> => store' = store

\* C24: setup_db is idempotent. After one call the store holds the 3 departments
\* and the 5 employees with the seed values, none of them twice, and every
\* further call in sequence leaves the store as the first call left it.
C24_SetupIsIdempotent == []C24_AfterOneCall /\ [][C24_FurtherCall]_vars

\* setup_db has been called three times in sequence, and the store holds its two
\* tables with the seed rows
C24_Witness ==
    /\ steps = <<"setup_db", "setup_db", "setup_db">>
    /\ Len(store) = 2
    /\ C24_Seeded(Departments, SeedDepartments)
    /\ C24_Seeded(Employees, SeedEmployees)

\* C25: for a provider name that is none of the four, the empty name included,
\* get_available_models returns an empty list: not None, and no exception.
C25_UnknownProviderEmptyList ==
    ret.fn = "get_available_models" /\ state.provider \notin {"Ollama", "OpenAI", "Gemini", "Anthropic"}
        => ret.value = <<>>

\* C26: for a provider name that is none of the four, the empty name included,
\* get_llm_instance raises a ValueError (Unsupported provider) and returns nothing.
C26_UnknownProviderRaises ==
    ret.fn = "get_llm_instance" /\ state.provider \notin {"Ollama", "OpenAI", "Gemini", "Anthropic"}
        => DOMAIN ret.value = {"raise"} /\ ret.value.raise = "ValueError"

\* the edges of the graph
C27_Edges ==
    {<<"fetch_schema", "writer">>, <<"writer", "guardian">>,
     <<"guardian", "executor">>, <<"guardian", "summarizer">>,
     <<"executor", "writer">>, <<"executor", "summarizer">>}

\* the step to come is one the graph allows after the last step; a run that a
\* failing step ended has no step to come
C27_StepToCome ==
    \/ pc = "aborted"
    \/ steps = <<>> /\ pc = "fetch_schema"
    \/ steps # <<>> /\ LastStep = "summarizer" /\ pc = "END"
    \/ steps # <<>> /\ LastStep = "guardian"
          /\ pc = IF state.sql_safe THEN "executor" ELSE "summarizer"
    \/ steps # <<>> /\ LastStep # "guardian" /\ <<LastStep, pc>> \in C27_Edges

\* C27: the steps of a run are a path of the graph. fetch_schema is the first
\* step and writer follows it, guardian follows every writer, executor follows
\* guardian when sql_safe is true and summarizer when it is not, writer or
\* summarizer follows executor, and nothing follows summarizer.
C27_StepsArePathOfGraph ==
    /\ (steps # <<>> => steps[1] = "fetch_schema")
    /\ \A i \in 1..(Len(steps) - 1) : <<steps[i], steps[i + 1]>> \in C27_Edges
    /\ C27_StepToCome

\* a finished run that took every edge but the one from executor to summarizer:
\* a failed execution, a second draft, and the gate blocking it
C27_Witness ==
    /\ pc = "END"
    /\ steps = <<"fetch_schema", "writer", "guardian", "executor",
                 "writer", "guardian", "summarizer">>
    /\ ~state.sql_safe

\* the executor has just completed, and sqlite3 returned rows or no rows
C28_ExecutionSucceeded ==
    /\ LastStep = "executor"
    /\ ret.fn = "executor"
    /\ pc # "aborted"
    /\ sqlite_outcome.kind \in {"rows", "empty"}

C28_RoutedToSummarizer ==
    C28_ExecutionSucceeded => pc = "summarizer" /\ state.error = <<>>

C28_SummarizerSeesNoError ==
    C28_ExecutionSucceeded => llm_prompt'.node = "summarizer" /\ llm_prompt'.error = <<>>

\* C28: a stale error never causes a retry. After every execution that succeeds,
\* with rows or without, the error of the state the routing decision reads is
\* empty and the next step is the summarizer, whose prompt shows an empty error;
\* this holds also when earlier drafts of the run failed in execution.
C28_NoSpuriousRetry == []C28_RoutedToSummarizer /\ [][C28_SummarizerSeesNoError]_vars

\* the summarizer was called after an execution that succeeded, in a run whose
\* first execution had failed
C28_Witness ==
    /\ steps = <<"fetch_schema", "writer", "guardian", "executor",
                 "writer", "guardian", "executor", "summarizer">>
    /\ llm_prompt.node = "summarizer"
    /\ llm_prompt.error = <<>>
    /\ llm_prompt.result # <<>>
    /\ pc = "END"

\* a step has just completed without failing: the schema fetch, a draft, a gate
\* pass, an execution that returned rows or no rows, or the summarizer
C29_StepDidNotFail ==
    /\ steps # <<>>
    /\ ret.fn = LastStep
    /\ pc # "aborted"
    /\ (LastStep = "guardian" => state.sql_safe)
    /\ (LastStep = "executor" => sqlite_outcome.kind \in {"rows", "empty"})

\* C29: after every step that did not fail the error of the merged state is the
\* empty string; no such step leaves the error of an earlier step in place.
C29_NoErrorAfterAnyGoodStep == C29_StepDidNotFail => state.error = <<>>

C29_GateAndExecutorClear ==
    C29_StepDidNotFail /\ LastStep \in {"guardian", "executor"} => state.error = <<>>

C29_OthersLeaveError ==
    steps' # steps /\ steps'[Len(steps')] \in {"fetch_schema", "writer", "summarizer"}
        => state'.error = state.error

\* C29, as the code has it: after a gate pass and after an execution that
\* succeeded the error of the merged state is the empty string; the schema fetch,
\* the writer and the summarizer return no error and leave the one that was there.
C29_OnlyGateAndExecutorClear ==
    []C29_GateAndExecutorClear /\ [][C29_OthersLeaveError]_vars

\* the writer has completed a second draft, and the error of the failed
\* execution before it is still in the state
C29_Witness ==
    /\ steps = <<"fetch_schema", "writer", "guardian", "executor", "writer">>
    /\ ret.fn = "writer"
    /\ pc = "guardian"
    /\ state.error # <<>>
    /\ llm_prompt.error = state.error

\* the writer calls the model
C30_WriterCallsModel == pc = "writer" /\ llm_calls' = llm_calls + 1

C30_PromptShowsLastError ==
    C30_WriterCallsModel =>
        /\ llm_prompt'.node = "writer"
        /\ LastStep \in {"fetch_schema", "executor"}
        /\ (LastStep = "fetch_schema" => llm_prompt'.error = <<>>)
        /\ (LastStep = "executor" =>
               /\ sqlite_outcome.kind = "error"
               /\ sqlite_outcome.text # <<>>
               /\ llm_prompt'.error = sqlite_outcome.text)

\* C30: on every retry the prompt of the writer shows the error text of the
\* execution that failed in the step just before it, which is not empty; on the
\* first draft it shows the empty error of the inputs.
C30_RetryPromptHasLastError == [][C30_PromptShowsLastError]_vars

\* the writer has drafted a third time, after two failed executions, and its
\* prompt showed an error
C30_Witness ==
    /\ steps = <<"fetch_schema", "writer", "guardian", "executor",
                 "writer", "guardian", "executor", "writer">>
    /\ ret.fn = "writer"
    /\ llm_prompt.node = "writer"
    /\ llm_prompt.error # <<>>
    /\ state.retry_count = 3

\* ------------------------------------------------------------------ C31

\* when the gate is about to run, the statement in the state is the one the
\* writer has just returned; when the executor is about to run, the gate has
\* just approved the statement in the state
C31_StatementInEffect ==
    /\ (pc = "guardian" =>
           /\ LastStep = "writer"
           /\ ret.fn = "writer"
           /\ state.sql_query = ret.value.sql_query)
    /\ (pc = "executor" =>
           /\ LastStep = "guardian"
           /\ ret.fn = "guardian"
           /\ ret.value.sql_safe
           /\ "sql_query" \in DOMAIN state)

\* neither the gate nor the executor changes the statement
C31_StatementKept ==
    pc \in {"guardian", "executor"} /\ pc' # "aborted" => state'.sql_query = state.sql_query

\* C31: the gate examines the statement of the most recent draft, and the
\* executor runs the statement the gate has just approved: sql_query is the
\* writer's latest output when the gate runs and is changed neither by the gate
\* nor by the executor.
C31_GateAndExecutorSeeLatestDraft == []C31_StatementInEffect /\ [][C31_StatementKept]_vars

\* the second draft of a run, CREATE TABLE t (x), has passed the gate and has
\* been executed: the table is in the store
C31_Witness ==
    /\ steps = <<"fetch_schema", "writer", "guardian", "executor",
                 "writer", "guardian", "executor">>
    /\ ret.fn = "executor"
    /\ state.sql_query = <<"C", "R", "E", "A", "T", "E", " ", "T", "A", "B", "L", "E", " ",
                           "t", " ", "(", "x", ")">>
    /\ \E i \in 1..Len(store) : store[i].name = <<"t">>

\* ------------------------------------------------------------------ C32

C32_CountStep ==
    /\ state'.retry_count \in {state.retry_count, state.retry_count + 1}
    /\ (state'.retry_count # state.retry_count => pc = "writer" /\ pc' = "guardian")

\* C32: within a run retry_count never decreases and is never reset. Across
\* every step it stays as it is or grows by exactly 1, and it changes only in a
\* step of the writer.
C32_RetryCountOnlyGrowsInWriter == [][C32_CountStep]_vars

\* the gate has passed the second draft of a run: retry_count is 2 and was left
\* alone by the gate and by the executor before it
C32_Witness ==
    /\ steps = <<"fetch_schema", "writer", "guardian", "executor", "writer", "guardian">>
    /\ ret.fn = "guardian"
    /\ pc = "executor"
    /\ state.retry_count = 2

\* ------------------------------------------------------------------ C33

\* the edge taken after the executor is decided by the error the executor has
\* just returned and by the number of drafts written so far
C33_RoutedOnMergedState ==
    LastStep = "executor" /\ ret.fn = "executor" /\ pc # "aborted" =>
        /\ state.error = ret.value.error
        /\ state.retry_count = Count("writer")
        /\ pc = IF ret.value.error # <<>> /\ Count("writer") < 3 THEN "writer"
                ELSE "summarizer"

\* C33: every routing decision is taken on the state with the output of the step
\* before it merged in. After an executor the edge follows the error that
\* executor returned and the retry_count of the latest draft, so the third draft
\* is still executed and a run has at most 3 executions.
C33_RoutingReadsMergedState ==
    /\ C33_RoutedOnMergedState
    /\ (pc = "executor" => state.retry_count \in 1..3)
    /\ Count("executor") <= 3

\* the third draft of a run has been executed and has failed: no further retry
C33_Witness ==
    /\ Count("executor") = 3
    /\ LastStep = "executor"
    /\ ret.fn = "executor"
    /\ ret.value.error # <<>>
    /\ state.retry_count = 3
    /\ pc = "summarizer"

\* ------------------------------------------------------------------ C34

\* the fields each step owns
C34_Owned(node) ==
    CASE node = "fetch_schema" -> {"schema"}
      [] node = "writer"       -> {"sql_query", "retry_count"}
      [] node = "guardian"     -> {"sql_safe", "error"}
      [] node = "executor"     -> {"result", "error"}
      [] node = "summarizer"   -> {"result"}

C34_Frame ==
    steps' # steps =>
        LET node == steps'[Len(steps')]
        IN  /\ ret'.fn = node
            /\ DOMAIN ret'.value = C34_Owned(node)
            /\ DOMAIN state' = DOMAIN state \cup C34_Owned(node)
            /\ \A k \in DOMAIN state \ C34_Owned(node) : state'[k] = state[k]
            /\ state'.question = state.question

\* C34: each step returns only the fields it owns (fetch_schema schema; write_sql
\* sql_query and retry_count; check_security sql_safe and error; execute_sql
\* result and error; summarize_result result), and every other field of the
\* state is after the step what it was before; no step changes question.
C34_StepsReturnOwnFields == [][C34_Frame]_vars

\* a blocked run has ended: four steps, and the state holds the question of the
\* inputs, the schema, the draft and its count, the verdict and the block reason
C34_Witness ==
    /\ pc = "END"
    /\ steps = <<"fetch_schema", "writer", "guardian", "summarizer">>
    /\ DOMAIN ret.value = {"result"}
    /\ state.question = <<"H", "o", "w", " ", "m", "a", "n", "y", "?">>
    /\ state.retry_count = 1
    /\ state.error # <<>>

\* ------------------------------------------------------------------ C35

\* C35: the output of check_security depends on the statement alone. For two
\* states with the same sql_query, whatever their error, retry_count, result,
\* sql_safe, question and schema are, it returns the same sql_safe and the same
\* error.
C35_GateDependsOnStatementOnly ==
    ret.fn = "check_security" /\ state.first.sql_query = state.second.sql_query =>
        /\ ret.value.first.sql_safe = ret.value.second.sql_safe
        /\ ret.value.first.error = ret.value.second.error

\* check_security has blocked the same statement in two states that differ in
\* all six other fields
C35_Witness ==
    /\ ret.fn = "check_security"
    /\ state.first.sql_query = state.second.sql_query
    /\ \A k \in {"error", "retry_count", "result", "sql_safe", "question", "schema"} :
          state.first[k] # state.second[k]
    /\ ~ret.value.first.sql_safe
    /\ ~ret.value.second.sql_safe

\* ------------------------------------------------------------------ C36

\* the number of connections open after the first n connection calls
C36_Open(n) ==
    Cardinality({i \in 1..n : conn_log[i] = "connect"})
    - Cardinality({i \in 1..n : conn_log[i] = "close"})

C36_NoneOpenBetweenSteps ==
    /\ C36_Open(Len(conn_log)) = 0
    /\ \A n \in 0..Len(conn_log) : C36_Open(n) \in {0, 1}

C36_OnlyStoreStepsConnect ==
    conn_log' # conn_log => pc \in {"fetch_schema", "executor"}

\* C36: a store connection is open only inside one fetch_schema or execute_sql
\* call. Every call that opened one has closed it when it returns, whether the
\* statement gave rows, no rows or failed, so between the steps of a run (during
\* every language-model call and every routing decision) no connection is open,
\* and at no time is more than one open.
C36_ConnectionScopedToCall ==
    []C36_NoneOpenBetweenSteps /\ [][C36_OnlyStoreStepsConnect]_vars

\* a run has ended after three executions, the last of which failed: four
\* connections were opened and closed, one after the other
C36_Witness ==
    /\ pc = "END"
    /\ Count("executor") = 3
    /\ state.error # <<>>
    /\ conn_log = <<"connect", "close", "connect", "close",
                    "connect", "close", "connect", "close">>

\* ------------------------------------------------------------------ C37

\* the statements that read the store and change nothing in it
C37_Reads == {"SELECT", "PRAGMA table_info"}

\* C37: when several questions are served at the same time on one store, each by
\* creating an agent and running its workflow, every statement handed to the
\* store is a read: no interleaving holds a statement that writes.
C37_ConcurrentRunsOnlyRead ==
    "statements" \in DOMAIN ret =>
        \A i \in 1..Len(ret.statements) : ret.statements[i] \in C37_Reads

\* ------------------------------------------------------------------ C38

\* the last draft was blocked by the gate
C38_Blocked == LastStep = "guardian" /\ ret.fn = "guardian" /\ ~ret.value.sql_safe

\* the last execution failed
C38_Failed == LastStep = "executor" /\ ret.fn = "executor" /\ sqlite_outcome.kind = "error"

\* the last execution returned rows or no rows
C38_Succeeded ==
    LastStep = "executor" /\ ret.fn = "executor" /\ sqlite_outcome.kind \in {"rows", "empty"}

\* C38: whenever the summarizer is entered, error is non-empty exactly when the
\* last draft was blocked or the last execution failed, and then result is empty
\* or was never set; when error is empty, result is the rows text or "No data
\* found." of the last execution. The two are never both non-empty.
C38_ErrorOrResultAtSummarizer ==
    pc = "summarizer" =>
        /\ (state.error # <<>>) = (C38_Blocked \/ C38_Failed)
        /\ (state.error # <<>> => "result" \notin DOMAIN state \/ state.result = <<>>)
        /\ (state.error = <<>> =>
               /\ C38_Succeeded
               /\ state.result = IF sqlite_outcome.kind = "rows" THEN sqlite_outcome.text
                                 ELSE <<"N", "o", " ", "d", "a", "t", "a", " ",
                                        "f", "o", "u", "n", "d", ".">>)
        /\ ~(state.error # <<>> /\ "result" \in DOMAIN state /\ state.result # <<>>)

\* the summarizer is entered after the gate blocked a retry draft: the error is
\* the block reason and the result is the empty text of the failed execution
C38_Witness ==
    /\ pc = "summarizer"
    /\ steps = <<"fetch_schema", "writer", "guardian", "executor", "writer", "guardian">>
    /\ ~state.sql_safe
    /\ state.error # <<>>
    /\ state.result = <<>>

\* ------------------------------------------------------------------ C39

\* the run has ended after an execution that failed
C39_Exhausted ==
    /\ pc = "END"
    /\ Len(steps) >= 2
    /\ steps[Len(steps) - 1] = "executor"
    /\ state.error # <<>>

\* C39: in a run started with retry_count = 0, retry_count after every step is
\* the number of writer invocations completed so far, and no more executor
\* invocations than that have completed; so a run that ends by retry exhaustion
\* ends with retry_count exactly 3, sql_safe true and a non-empty error.
C39_RetryCountCountsDrafts ==
    /\ state.retry_count = Cardinality({i \in 1..Len(steps) : steps[i] = "writer"})
    /\ Cardinality({i \in 1..Len(steps) : steps[i] = "executor"}) <= state.retry_count
    /\ (C39_Exhausted =>
           /\ state.retry_count = 3
           /\ state.sql_safe
           /\ state.error # <<>>)

\* a run has ended by retry exhaustion: three drafts, three executions
C39_Witness ==
    /\ C39_Exhausted
    /\ Cardinality({i \in 1..Len(steps) : steps[i] = "executor"}) = 3
    /\ state.retry_count = 3
    /\ state.sql_safe

\* ------------------------------------------------------------------ C40

\* the number of fetch_schema steps completed so far
C40_Fetches == Cardinality({i \in 1..Len(steps) : steps[i] = "fetch_schema"})

\* fetch_schema is the first step and it is never due again; a draft's prompt
\* carries the schema text of the state
C40_FetchedOnceFirst ==
    /\ (pc = "fetch_schema" => steps = <<>>)
    /\ (steps # <<>> => steps[1] = "fetch_schema" /\ C40_Fetches = 1)
    /\ (llm_prompt.node = "writer" => llm_prompt.schema = state.schema)

\* after the first step no step changes the schema field
C40_SchemaKept ==
    steps # <<>> => /\ "schema" \in DOMAIN state'
                    /\ state'.schema = state.schema

\* C40: fetch_schema runs exactly once per run, before the first draft; a retry
\* leads to the writer and never to fetch_schema, so every draft of a run is
\* prompted with the same schema text and the schema field is unchanged after
\* the first step.
C40_SchemaFetchedOnce == []C40_FetchedOnceFirst /\ [][C40_SchemaKept]_vars

\* the third draft of a run has been prompted, after two failed executions and
\* a single fetch_schema step
C40_Witness ==
    /\ steps = <<"fetch_schema", "writer", "guardian", "executor",
                 "writer", "guardian", "executor", "writer">>
    /\ llm_prompt.node = "writer"
    /\ llm_prompt.schema = state.schema
    /\ state.retry_count = 3

====
